---- MODULE Spec2Model ----
(***************************************************************************)
(* Subscription lifecycle and access-control core of the reseller          *)
(* dashboard: the access-code validation edge function with its in-memory  *)
(* rate limiter, the rate limiters of the other edge functions, the SQL    *)
(* procedure get_customer_data_by_access_code, the auto-deactivate job,    *)
(* the status computations of the admin and customer pages, the functions  *)
(* that create and delete admin users, and the verification-code fetch.    *)
(*                                                                         *)
(* Time is counted in ticks of two and a half minutes since the start of   *)
(* the behaviour (MsPerTick milliseconds each, half of the sweep interval, *)
(* so that requests may come sooner or later than a sweep interval after   *)
(* the last sweep); tick 0 is a UTC midnight.                              *)
(* Dates are day numbers; a DATE column d parses to the instant d * Day.   *)
(* The pages run in a zone without daylight-saving shifts, so addDays adds *)
(* whole multiples of Day and differenceInDays truncates toward zero.      *)
(***************************************************************************)
EXTENDS Integers, Sequences, FiniteSets, TLC

VARIABLES
    now,          \* the wall clock, in ticks
    fn,           \* the edge function whose isolate rateLimits belongs to
    rateLimits,   \* that isolate's Map: key -> {attempts, resetAt}
    lastCleanup,  \* instant of the last sweep of validate-access-code
    win,          \* per key: calls counted in the window a reference limiter holds open
    pending,      \* per key: its validation request awaiting the data store
    customers,    \* the customers table
    job,          \* per trigger: the deactivation run between its scan and its update
    runs,         \* customers the last completed run deactivated; -1 once clock or a writer moved
    cronSecret,   \* the CRON_SECRET environment variable
    admins,       \* per admin session of CustomersTab: its customers state and bulk action
    ledger,       \* per customer: subscription_days as written by forms plus extends applied
    unswept,      \* the Map the same calls leave in an isolate that never sweeps
    adminSetupKey, \* the ADMIN_SETUP_KEY environment variable
    admin_users,  \* the admin_users table: the ids of its rows
    auth_users,   \* the users of the identity provider: their ids
    otp_logs,     \* the otp_logs table
    fetched,      \* per account: code and number of the latest fetch answered with success
    calls,        \* per caller: its request to an admin or fetch function in flight
    out           \* what the latest step answered or rendered at this instant

vars == <<now, fn, rateLimits, lastCleanup, win, pending, customers, job, runs,
          cronSecret, admins, ledger, unswept, adminSetupKey, admin_users,
          auth_users, otp_logs, fetched, calls, out>>

\* ------------------------------------------------------------------ bounds

\* Clock steps a rate-limiter behaviour runs past the end of the first window.
Slack == 2
\* Calls per key and window followed past the maximum of the policy.
ExtraCalls == 2
\* Half days the lifecycle behaviours run for.
MaxHalfDays == 4
\* Validation requests a key sends per window in the lifecycle behaviours.
LifeCalls == 1
\* Bulk extends the admin sessions start in the admin behaviours.
MaxExtends == 2
\* Form submits the admin session makes in the admin behaviours.
MaxSubmits == 2
\* Days the status behaviours run for.
MaxDays == 54

\* ------------------------------------------------------------------- time

MsPerTick == 150 * 1000
Day == (1000 * 60 * 60 * 24) \div MsPerTick
HalfDay == Day \div 2

\* Math.ceil(a / b) for a >= 0, b > 0
Ceil(a, b) == (a + b - 1) \div b

\* Math.trunc(a / b) for b > 0: the rounding of date-fns differenceInDays
Trunc(a, b) == IF a >= 0 THEN a \div b ELSE -((-a) \div b)

\* a % b of JavaScript for b > 0: the sign follows the dividend
JsRem(a, b) == IF a >= 0 THEN a % b ELSE -((-a) % b)

\* String(n) of JavaScript for an integer n >= 0: its decimal digits
DecimalDigits == <<"0", "1", "2", "3", "4", "5", "6", "7", "8", "9">>

RECURSIVE String(_)
String(n) ==
    IF n < 10 THEN <<DecimalDigits[n + 1]>>
    ELSE String(n \div 10) \o <<DecimalDigits[(n % 10) + 1]>>

\* ------------------------------------------------------- rate limit policy

FnValidate == "validate-access-code"
FnCreate == "create-admin-user"
FnDelete == "delete-admin-user"
FnOtp == "fetch-netflix-otp"
Functions == {FnValidate, FnCreate, FnDelete, FnOtp}

MAX_ATTEMPTS == 5
RATE_LIMIT_WINDOW == (15 * 60 * 1000) \div MsPerTick
CLEANUP_INTERVAL == (5 * 60 * 1000) \div MsPerTick

CREATE_MAX_ATTEMPTS == 3
CREATE_RATE_LIMIT_WINDOW == (60 * 60 * 1000) \div MsPerTick

DELETE_MAX_ATTEMPTS == 5
DELETE_RATE_LIMIT_WINDOW == (60 * 60 * 1000) \div MsPerTick

MAX_OTP_ATTEMPTS == 10
OTP_RATE_LIMIT_WINDOW == (15 * 60 * 1000) \div MsPerTick

\* The policy of each edge function, as the claims quote it.
MaxOf(f) ==
    CASE f = FnValidate -> MAX_ATTEMPTS
      [] f = FnCreate -> CREATE_MAX_ATTEMPTS
      [] f = FnDelete -> DELETE_MAX_ATTEMPTS
      [] f = FnOtp -> MAX_OTP_ATTEMPTS

WindowOf(f) ==
    CASE f = FnValidate -> RATE_LIMIT_WINDOW
      [] f = FnCreate -> CREATE_RATE_LIMIT_WINDOW
      [] f = FnDelete -> DELETE_RATE_LIMIT_WINDOW
      [] f = FnOtp -> OTP_RATE_LIMIT_WINDOW

\* Client keys, as getClientIP returns them.
Keys == {"ip1", "ip2"}

\* ------------------------------------------------------------ rate limiter

\* A key the Map does not hold.
NoEntry == [present |-> FALSE, attempts |-> 0, resetAt |-> 0]

Entry(a, r) == [present |-> TRUE, attempts |-> a, resetAt |-> r]

EmptyLimits == [k \in Keys |-> NoEntry]

\* A sweep that also removes the entries whose window ends at this instant.
cleanupOldEntriesEager(limits, lc, t) ==
    IF t - lc < CLEANUP_INTERVAL
    THEN [limits |-> limits, lastCleanup |-> lc]
    ELSE [limits |-> [k \in Keys |->
                        IF limits[k].present /\ t >= limits[k].resetAt
                        THEN NoEntry ELSE limits[k]],
          lastCleanup |-> t]

\* cleanupOldEntries(): the new Map and the new lastCleanup at instant t.
cleanupOldEntries(limits, lc, t) ==
    IF t - lc < CLEANUP_INTERVAL
    THEN [limits |-> limits, lastCleanup |-> lc]
    ELSE [limits |-> [k \in Keys |->
                        IF limits[k].present /\ t > limits[k].resetAt
                        THEN NoEntry ELSE limits[k]],
          lastCleanup |-> t]

\* A limiter that lets the (max+1)th call of a window through.
checkRateLimitOffByOne(limits, clientIP, t) ==
    LET limit == limits[clientIP] IN
    IF ~limit.present \/ t > limit.resetAt
    THEN [limits |-> [limits EXCEPT ![clientIP] = Entry(1, t + RATE_LIMIT_WINDOW)],
          allowed |-> TRUE, remaining |-> MAX_ATTEMPTS - 1,
          resetIn |-> RATE_LIMIT_WINDOW]
    ELSE IF limit.attempts > MAX_ATTEMPTS
    THEN [limits |-> limits, allowed |-> FALSE, remaining |-> 0,
          resetIn |-> limit.resetAt - t]
    ELSE [limits |-> [limits EXCEPT ![clientIP].attempts = @ + 1],
          allowed |-> TRUE,
          remaining |-> (MAX_ATTEMPTS - limit.attempts) - 1,
          resetIn |-> limit.resetAt - t]

\* A limiter that keeps counting where the elapsed window stopped.
checkRateLimitNoReset(limits, clientIP, t) ==
    LET limit == limits[clientIP] IN
    IF ~limit.present
    THEN [limits |-> [limits EXCEPT ![clientIP] = Entry(1, t + RATE_LIMIT_WINDOW)],
          allowed |-> TRUE, remaining |-> MAX_ATTEMPTS - 1,
          resetIn |-> RATE_LIMIT_WINDOW]
    ELSE IF t > limit.resetAt
    THEN [limits |-> [limits EXCEPT ![clientIP] =
                        Entry(IF limit.attempts >= MAX_ATTEMPTS THEN 1
                              ELSE limit.attempts + 1, t + RATE_LIMIT_WINDOW)],
          allowed |-> TRUE,
          remaining |-> IF limit.attempts >= MAX_ATTEMPTS THEN MAX_ATTEMPTS - 1
                        ELSE (MAX_ATTEMPTS - limit.attempts) - 1,
          resetIn |-> RATE_LIMIT_WINDOW]
    ELSE IF limit.attempts >= MAX_ATTEMPTS
    THEN [limits |-> limits, allowed |-> FALSE, remaining |-> 0,
          resetIn |-> limit.resetAt - t]
    ELSE [limits |-> [limits EXCEPT ![clientIP].attempts = @ + 1],
          allowed |-> TRUE,
          remaining |-> (MAX_ATTEMPTS - limit.attempts) - 1,
          resetIn |-> limit.resetAt - t]

\* A limiter that starts the window again at every denied call.
checkRateLimitPenalty(limits, clientIP, t) ==
    LET limit == limits[clientIP] IN
    IF ~limit.present \/ t > limit.resetAt
    THEN [limits |-> [limits EXCEPT ![clientIP] = Entry(1, t + RATE_LIMIT_WINDOW)],
          allowed |-> TRUE, remaining |-> MAX_ATTEMPTS - 1,
          resetIn |-> RATE_LIMIT_WINDOW]
    ELSE IF limit.attempts >= MAX_ATTEMPTS
    THEN [limits |-> [limits EXCEPT ![clientIP].resetAt = t + RATE_LIMIT_WINDOW],
          allowed |-> FALSE, remaining |-> 0,
          resetIn |-> limit.resetAt - t]
    ELSE [limits |-> [limits EXCEPT ![clientIP].attempts = @ + 1],
          allowed |-> TRUE,
          remaining |-> (MAX_ATTEMPTS - limit.attempts) - 1,
          resetIn |-> limit.resetAt - t]

\* checkRateLimit(clientIP) of validate-access-code at instant t.
checkRateLimit(limits, clientIP, t) ==
    LET limit == limits[clientIP] IN
    IF ~limit.present
    THEN [limits |-> [limits EXCEPT ![clientIP] = Entry(1, t + RATE_LIMIT_WINDOW)],
          allowed |-> TRUE, remaining |-> MAX_ATTEMPTS - 1,
          resetIn |-> RATE_LIMIT_WINDOW]
    ELSE IF t > limit.resetAt
    THEN [limits |-> [limits EXCEPT ![clientIP] = Entry(1, t + RATE_LIMIT_WINDOW)],
          allowed |-> TRUE, remaining |-> MAX_ATTEMPTS - 1,
          resetIn |-> RATE_LIMIT_WINDOW]
    ELSE IF limit.attempts >= MAX_ATTEMPTS
    THEN [limits |-> limits, allowed |-> FALSE, remaining |-> 0,
          resetIn |-> limit.resetAt - t]
    ELSE [limits |-> [limits EXCEPT ![clientIP].attempts = @ + 1],
          allowed |-> TRUE,
          remaining |-> (MAX_ATTEMPTS - limit.attempts) - 1,
          resetIn |-> limit.resetAt - t]

\* The body shared by the three isRateLimited(clientIP) functions.
isRateLimitedWith(limits, clientIP, t, max, window) ==
    LET limit == limits[clientIP] IN
    IF ~limit.present
    THEN [limits |-> [limits EXCEPT ![clientIP] = Entry(1, t + window)],
          limited |-> FALSE]
    ELSE IF t > limit.resetAt
    THEN [limits |-> [limits EXCEPT ![clientIP] = Entry(1, t + window)],
          limited |-> FALSE]
    ELSE IF limit.attempts >= max
    THEN [limits |-> limits, limited |-> TRUE]
    ELSE [limits |-> [limits EXCEPT ![clientIP].attempts = @ + 1],
          limited |-> FALSE]

\* isRateLimited(clientIP) of create-admin-user.
isRateLimitedCreate(limits, clientIP, t) ==
    isRateLimitedWith(limits, clientIP, t, CREATE_MAX_ATTEMPTS, CREATE_RATE_LIMIT_WINDOW)

\* isRateLimited(clientIP) of delete-admin-user.
isRateLimitedDelete(limits, clientIP, t) ==
    isRateLimitedWith(limits, clientIP, t, DELETE_MAX_ATTEMPTS, DELETE_RATE_LIMIT_WINDOW)

\* isRateLimited(clientIP) of the verification-code function.
isRateLimitedOtp(limits, clientIP, t) ==
    isRateLimitedWith(limits, clientIP, t, MAX_OTP_ATTEMPTS, OTP_RATE_LIMIT_WINDOW)

\* ------------------------------------------------------------- the store

NULL == "null"

\* profile_number IS NULL
NoProfile == 0

\* JavaScript values a request body can carry in access_code.
JsUndefined == [t |-> "undefined", s |-> <<>>, n |-> 0]
JsNumber(n) == [t |-> "number", s |-> <<>>, n |-> n]
JsString(s) == [t |-> "string", s |-> s, n |-> 0]

\* !v
Falsy(v) ==
    \/ v.t \in {"undefined", "null"}
    \/ v.t = "number" /\ v.n = 0
    \/ v.t = "string" /\ v.s = <<>>

DigitChars == {"0", "1", "2", "3", "4", "5", "6", "7", "8", "9"}

\* /^\d{6}$/.test(s) and p !~ '^[0-9]{6}$' negated
SixDigits(s) == Len(s) = 6 /\ \A i \in 1..Len(s) : s[i] \in DigitChars

\* The string of six copies of the character d.
Code(d) == [i \in 1..6 |-> d]

CustomerIds == {"c1", "c2"}
AccountIds == {"na1", "na2"}

\* The netflix_accounts table; no modelled operation writes it.
netflix_accounts ==
    [a \in AccountIds |->
        [netflix_email |-> "e-" \o a, netflix_password |-> "pw-" \o a,
         gmail_address |-> "g-" \o a]]

\* One row of the RETURNS TABLE of get_customer_data_by_access_code
\* (name and purchased_from, which are display text only, are left out).
Row(custs, id) ==
    LET c == custs[id]
        joined == c.netflix_account_id \in AccountIds
    IN [id |-> id,
        access_code |-> c.access_code,
        purchase_date |-> c.purchase_date,
        subscription_days |-> c.subscription_days,
        is_active |-> c.is_active,
        profile_number |-> c.profile_number,
        netflix_email |->
            IF joined THEN netflix_accounts[c.netflix_account_id].netflix_email ELSE NULL,
        netflix_password |->
            IF joined THEN netflix_accounts[c.netflix_account_id].netflix_password ELSE NULL,
        netflix_account_id |-> c.netflix_account_id,
        gmail_address |->
            IF joined THEN netflix_accounts[c.netflix_account_id].gmail_address ELSE NULL]

\* The procedure without the is_active condition of its WHERE clause.
get_customer_data_any_status(custs, p_access_code) ==
    IF ~SixDigits(p_access_code)
    THEN <<>>
    ELSE LET hit == {id \in CustomerIds : custs[id].access_code = p_access_code}
         IN IF hit = {} THEN <<>> ELSE <<Row(custs, CHOOSE id \in hit : TRUE)>>

\* A procedure that checks for an active customer in one query and fetches
\* the row of the code in another.
get_customer_data_check_then_fetch(custs, p_access_code) ==
    IF ~SixDigits(p_access_code)
    THEN <<>>
    ELSE LET hit == {id \in CustomerIds : custs[id].access_code = p_access_code}
         IN IF hit = {} \/ ~(\E id \in CustomerIds : custs[id].is_active) THEN <<>>
            ELSE <<Row(custs, CHOOSE id \in hit : TRUE)>>

\* get_customer_data_by_access_code(p_access_code): the rows it returns.
\* access_code is UNIQUE, so LIMIT 1 cuts nothing off.
get_customer_data_by_access_code(custs, p_access_code) ==
    IF ~SixDigits(p_access_code)
    THEN <<>>
    ELSE LET hit == {id \in CustomerIds :
                        /\ custs[id].access_code = p_access_code
                        /\ custs[id].is_active}
         IN IF hit = {} THEN <<>> ELSE <<Row(custs, CHOOSE id \in hit : TRUE)>>

\* ------------------------------------------- validate-access-code: handler

\* A request body: text that is no JSON, or an object whose access_code is v
\* (JsUndefined when the object has no such key).
NotJson == [json |-> FALSE, access_code |-> JsUndefined]
Json(v) == [json |-> TRUE, access_code |-> v]

\* An HTTP response: status, the keys of its JSON body and their values.
Response(status, keys, error, retry_after, customer, remaining_attempts) ==
    [status |-> status, keys |-> keys, error |-> error, retry_after |-> retry_after,
     customer |-> customer, remaining_attempts |-> remaining_attempts]

NoResponse == Response(0, {}, "", -1, <<>>, -1)

TooManyAttempts(retryAfterSeconds) ==
    Response(429, {"error", "retry_after"},
             "Too many attempts. Please try again later.", retryAfterSeconds, <<>>, -1)

BadFormat ==
    Response(400, {"error"}, "Valid 6-digit access code is required", -1, <<>>, -1)

InternalError == Response(500, {"error"}, "Internal server error", -1, <<>>, -1)

LookupFailed == Response(500, {"error"}, "Failed to validate access code", -1, <<>>, -1)

Denied == Response(403, {"error"}, "Invalid or inactive access code", -1, <<>>, -1)

Granted(customerData, remaining) ==
    Response(200, {"success", "customer", "remaining_attempts"}, "", -1,
             <<customerData>>, remaining)

\* No call of the procedure is waiting.
NoRpc == [clientIP |-> "none", accessCode |-> <<>>, remaining |-> -1]

\* A format check that tests the characters but not the length.
formatRejectedAnyLength(accessCode) ==
    \/ Falsy(accessCode)
    \/ accessCode.t # "string"
    \/ ~(\A i \in 1..Len(accessCode.s) : accessCode.s[i] \in DigitChars)

\* !accessCode || typeof accessCode !== "string" || !/^\d{6}$/.test(accessCode)
formatRejected(accessCode) ==
    \/ Falsy(accessCode)
    \/ accessCode.t # "string"
    \/ ~SixDigits(accessCode.s)

\* A handler that reads and validates the body before it asks the limiter.
handlerBeginValidateFirst(limits, lc, t, clientIP, body) ==
    LET cl == cleanupOldEntries(limits, lc, t)
        rateCheck == checkRateLimit(cl.limits, clientIP, t)
    IN IF ~body.json
       THEN [limits |-> cl.limits, lastCleanup |-> cl.lastCleanup,
             allowed |-> TRUE, remaining |-> -1, resetIn |-> -1,
             response |-> InternalError, retryAfter |-> <<>>, rpc |-> NoRpc]
       ELSE IF formatRejected(body.access_code)
       THEN [limits |-> cl.limits, lastCleanup |-> cl.lastCleanup,
             allowed |-> TRUE, remaining |-> -1, resetIn |-> -1,
             response |-> BadFormat, retryAfter |-> <<>>, rpc |-> NoRpc]
       ELSE IF ~rateCheck.allowed
       THEN [limits |-> rateCheck.limits, lastCleanup |-> cl.lastCleanup,
             allowed |-> FALSE, remaining |-> rateCheck.remaining,
             resetIn |-> rateCheck.resetIn,
             response |-> TooManyAttempts(Ceil(rateCheck.resetIn * MsPerTick, 1000)),
             retryAfter |-> String(Ceil(rateCheck.resetIn * MsPerTick, 1000)),
             rpc |-> NoRpc]
       ELSE [limits |-> rateCheck.limits, lastCleanup |-> cl.lastCleanup,
             allowed |-> TRUE, remaining |-> rateCheck.remaining,
             resetIn |-> rateCheck.resetIn,
             response |-> NoResponse, retryAfter |-> <<>>,
             rpc |-> [clientIP |-> clientIP, accessCode |-> body.access_code.s,
                      remaining |-> rateCheck.remaining]]

\* handler, from the sweep to the call of the procedure: the Map and lastCleanup
\* it leaves, what the limiter said, and either the response or the call it
\* is about to await.
handlerBegin(limits, lc, t, clientIP, body) ==
    LET cl == cleanupOldEntries(limits, lc, t)
        rateCheck == checkRateLimit(cl.limits, clientIP, t)
        base == [limits |-> rateCheck.limits, lastCleanup |-> cl.lastCleanup,
                 allowed |-> rateCheck.allowed, remaining |-> rateCheck.remaining,
                 resetIn |-> rateCheck.resetIn,
                 response |-> NoResponse, retryAfter |-> <<>>, rpc |-> NoRpc]
        retryAfterSeconds == Ceil(rateCheck.resetIn * MsPerTick, 1000)
    IN IF ~rateCheck.allowed
       THEN [base EXCEPT !.response = TooManyAttempts(retryAfterSeconds),
                         !.retryAfter = String(retryAfterSeconds)]
       ELSE IF ~body.json
       THEN [base EXCEPT !.response = InternalError]
       ELSE IF formatRejected(body.access_code)
       THEN [base EXCEPT !.response = BadFormat]
       ELSE [base EXCEPT !.rpc =
                [clientIP |-> clientIP, accessCode |-> body.access_code.s,
                 remaining |-> rateCheck.remaining]]

\* handler, from the answer of the procedure on; dbOk is FALSE when the call
\* came back with an error.
handlerFinish(custs, rpc, dbOk) ==
    IF ~dbOk
    THEN LookupFailed
    ELSE LET data == get_customer_data_by_access_code(custs, rpc.accessCode)
         IN IF data = <<>> THEN Denied ELSE Granted(data[1], rpc.remaining)

\* ------------------------------------------------------ dates and status

\* new Date("YYYY-MM-DD") of a DATE column holding day d
DateOf(d) == d * Day

\* date-fns addDays(date, amount); Date.setDate(getDate() + amount)
addDays(date, amount) == date + amount * Day

\* date-fns differenceInDays(dateLeft, dateRight): full days, toward zero
differenceInDays(dateLeft, dateRight) == Trunc(dateLeft - dateRight, Day)

\* daysRemaining as every page computes it
daysRemaining(c, t) ==
    differenceInDays(addDays(DateOf(c.purchase_date), c.subscription_days), t)

\* A badge for which the day of expiry is still a day of service.
getStatusLastDayActive(c, t) ==
    IF ~c.is_active
    THEN [label |-> "Inactive", days |-> 0, variant |-> "secondary", status |-> "inactive"]
    ELSE IF daysRemaining(c, t) < 0
    THEN [label |-> "Expired", days |-> 0, variant |-> "destructive", status |-> "expired"]
    ELSE IF daysRemaining(c, t) <= 7
    THEN [label |-> "d left", days |-> daysRemaining(c, t), variant |-> "outline",
          status |-> "active"]
    ELSE [label |-> "Active", days |-> 0, variant |-> "default", status |-> "active"]

\* A badge that looks at the dates before it looks at is_active.
getStatusDatesFirst(c, t) ==
    IF daysRemaining(c, t) <= 0
    THEN [label |-> "Expired", days |-> 0, variant |-> "destructive", status |-> "expired"]
    ELSE IF ~c.is_active
    THEN [label |-> "Inactive", days |-> 0, variant |-> "secondary", status |-> "inactive"]
    ELSE IF daysRemaining(c, t) <= 7
    THEN [label |-> "d left", days |-> daysRemaining(c, t), variant |-> "outline",
          status |-> "active"]
    ELSE [label |-> "Active", days |-> 0, variant |-> "default", status |-> "active"]

\* getStatus(customer) of CustomersTab at instant t; the label `${n}d left`
\* is the pair of "d left" and days.
getStatus(c, t) ==
    IF ~c.is_active
    THEN [label |-> "Inactive", days |-> 0, variant |-> "secondary", status |-> "inactive"]
    ELSE IF daysRemaining(c, t) <= 0
    THEN [label |-> "Expired", days |-> 0, variant |-> "destructive", status |-> "expired"]
    ELSE IF daysRemaining(c, t) <= 7
    THEN [label |-> "d left", days |-> daysRemaining(c, t), variant |-> "outline",
          status |-> "active"]
    ELSE [label |-> "Active", days |-> 0, variant |-> "default", status |-> "active"]

\* fetchStats of OverviewTab: the customer counts as an active subscription
overviewCountsActive(c, t) == c.is_active /\ daysRemaining(c, t) > 0

\* fetchStats of OverviewTab: activeSubscriptions and expiredSubscriptions
fetchStats(custs, t) ==
    LET active == {id \in CustomerIds : overviewCountsActive(custs[id], t)}
    IN [activeSubscriptions |-> Cardinality(active),
        expiredSubscriptions |-> Cardinality(CustomerIds \ active)]

\* CustomerDashboard: what fetchCustomerData stores for a row of the
\* procedure and what the page computes from it at instant t.
dashboard(row, t) ==
    LET isExpiredCheck == daysRemaining(row, t) <= 0
        customer == IF isExpiredCheck THEN [row EXCEPT !.is_active = FALSE] ELSE row
    IN [customer |-> customer,
        daysRemaining |-> daysRemaining(customer, t),
        isExpiringSoon |-> daysRemaining(customer, t) <= 7 /\ daysRemaining(customer, t) > 0,
        isExpired |-> daysRemaining(customer, t) <= 0 \/ ~customer.is_active]

\* Array.prototype.sort((a, b) => a.daysLeft - b.daysLeft): stable, ascending
InsertByDaysLeft(sorted, n) ==
    LET k == Cardinality({i \in 1..Len(sorted) : sorted[i].daysLeft <= n.daysLeft})
    IN SubSeq(sorted, 1, k) \o <<n>> \o SubSeq(sorted, k + 1, Len(sorted))

RECURSIVE SortByDaysLeft(_)
SortByDaysLeft(list) ==
    IF list = <<>> THEN <<>>
    ELSE InsertByDaysLeft(SortByDaysLeft(SubSeq(list, 1, Len(list) - 1)), list[Len(list)])

\* daysUntilRotation of both pages: 30 - (daysSincePurchase % 30)
daysUntilRotation(c, t) ==
    30 - JsRem(differenceInDays(t, DateOf(c.purchase_date)), 30)

\* fetchStats of OverviewTab: what customer id adds to needsRotation
overviewRotationOf(custs, id, t) ==
    IF /\ custs[id].is_active /\ daysRemaining(custs[id], t) > 0
       /\ custs[id].subscription_days >= 30
       /\ daysUntilRotation(custs[id], t) <= 7 /\ daysRemaining(custs[id], t) > 0
    THEN <<[id |-> id, daysLeft |-> daysUntilRotation(custs[id], t),
            subscriptionDays |-> custs[id].subscription_days]>>
    ELSE <<>>

\* fetchStats of OverviewTab: needsRotation over the rows in the order read
RECURSIVE needsRotationUnsorted(_, _, _)
needsRotationUnsorted(custs, order, t) ==
    IF order = <<>> THEN <<>>
    ELSE overviewRotationOf(custs, Head(order), t)
         \o needsRotationUnsorted(custs, Tail(order), t)

needsRotation(custs, order, t) == SortByDaysLeft(needsRotationUnsorted(custs, order, t))

\* fetchNotifications of NotificationBell: the rotation notice of a row
bellRotation(c, id, t) ==
    IF /\ c.subscription_days >= 30
       /\ daysUntilRotation(c, t) <= 7 /\ daysUntilRotation(c, t) > 0
    THEN <<[id |-> id, type |-> "rotation", daysLeft |-> daysUntilRotation(c, t)]>>
    ELSE <<>>

\* fetchNotifications of NotificationBell: the expiring notice of a row
bellExpiring(c, id, t) ==
    IF daysRemaining(c, t) <= 7 /\ daysRemaining(c, t) > 0
    THEN <<[id |-> id, type |-> "expiring", daysLeft |-> daysRemaining(c, t)]>>
    ELSE <<>>

\* fetchNotifications: the notices of the active rows in the order read
RECURSIVE newNotifications(_, _, _)
newNotifications(custs, order, t) ==
    IF order = <<>> THEN <<>>
    ELSE (IF custs[Head(order)].is_active
          THEN bellRotation(custs[Head(order)], Head(order), t)
               \o bellExpiring(custs[Head(order)], Head(order), t)
          ELSE <<>>)
         \o newNotifications(custs, Tail(order), t)

\* fetchNotifications of NotificationBell at instant t
fetchNotifications(custs, order, t) == SortByDaysLeft(newNotifications(custs, order, t))

\* ------------------------------------------------------- deactivation runs

\* A scan that reads every customer, active or not.
selectAll(custs) == CustomerIds

\* .from("customers").select(...).eq("is_active", true)
selectActive(custs) == {id \in CustomerIds : custs[id].is_active}

\* auto-deactivate-expired: the filter over the rows scanned at instant t
customersToDeactivate(custs, t) ==
    {id \in selectActive(custs) :
        addDays(DateOf(custs[id].purchase_date), custs[id].subscription_days) <= t}

\* An update that deactivates and frees the account but keeps the profile.
deactivateKeepProfile(custs, ids) ==
    [id \in CustomerIds |->
        IF id \in ids
        THEN [custs[id] EXCEPT !.is_active = FALSE, !.netflix_account_id = NULL]
        ELSE custs[id]]

\* .update({ is_active: false, netflix_account_id: null, profile_number: null })
\* .in("id", idsToDeactivate)
deactivate(custs, ids) ==
    [id \in CustomerIds |->
        IF id \in ids
        THEN [custs[id] EXCEPT !.is_active = FALSE, !.netflix_account_id = NULL,
                               !.profile_number = NoProfile]
        ELSE custs[id]]

\* runDeactivation of OverviewTab: its own copy of scan and filter
expiredCustomers(custs, t) ==
    {id \in {i \in CustomerIds : custs[i].is_active} :
        addDays(DateOf(custs[id].purchase_date), custs[id].subscription_days) <= t}

\* runDeactivation of OverviewTab: its own copy of the update
runDeactivationUpdate(custs, ids) ==
    [id \in CustomerIds |->
        IF id \in ids
        THEN [custs[id] EXCEPT !.is_active = FALSE, !.netflix_account_id = NULL,
                               !.profile_number = NoProfile]
        ELSE custs[id]]

\* ------------------------------------------------------------ environment

\* The bodies clients send: the codes of the two customers, a code of nobody,
\* five digits, seven digits, a letter among the digits, the empty string, a
\* number, an object without access_code, and text that is no JSON.
Bodies ==
    {Json(JsString(Code("1"))), Json(JsString(Code("2"))), Json(JsString(Code("3"))),
     Json(JsString(<<"1", "1", "1", "1", "1">>)),
     Json(JsString(<<"1", "1", "1", "1", "1", "1", "1">>)),
     Json(JsString(<<"1", "1", "a", "1", "1", "1">>)),
     Json(JsString(<<>>)),
     Json(JsNumber(111111)),
     Json(JsUndefined),
     NotJson}

Customer(code, pd, sd, active, account, profile) ==
    [access_code |-> code, purchase_date |-> pd, subscription_days |-> sd,
     is_active |-> active, netflix_account_id |-> account, profile_number |-> profile]

NoOut == [kind |-> "none"]

NoPending == [rpc |-> NoRpc, nth |-> 0]

NoJob == [running |-> FALSE, ids |-> {}, after |-> -1]

Triggers == {"cron", "admin"}

\* The reference window of key k after a call at instant t: a call opens a
\* window of WindowOf(f) ticks unless one it falls into is open.
NextWin(w, k, t, f) ==
    IF w[k].n = 0 \/ t > w[k].end
    THEN [n |-> 1, end |-> t + WindowOf(f)]
    ELSE [n |-> w[k].n + 1, end |-> w[k].end]

\* ----------------------------------------------- validate-access-code: steps

\* req.method === "OPTIONS"
Preflight(k) ==
    /\ fn = FnValidate
    /\ out' = [kind |-> "preflight", key |-> k, status |-> 200]
    /\ UNCHANGED <<now, fn, rateLimits, lastCleanup, win, pending, customers, job,
                   runs, cronSecret, admins, ledger,
                   unswept, adminSetupKey, admin_users, auth_users, otp_logs, fetched, calls>>

\* A request from key k with the given body, up to its response or to the
\* await of the procedure call. A key has one procedure call in flight at most
\* and sends at most cap requests in a window.
ValidateBegin(k, body, cap) ==
    LET b == handlerBegin(rateLimits, lastCleanup, now, k, body)
        w == NextWin(win, k, now, fn)
        u == checkRateLimit(unswept, k, now)
    IN /\ fn = FnValidate
       /\ w.n <= cap
       /\ b.rpc # NoRpc => pending[k] = NoPending
       /\ rateLimits' = b.limits
       /\ lastCleanup' = b.lastCleanup
       /\ unswept' = u.limits
       /\ win' = [win EXCEPT ![k] = w]
       /\ pending' = IF b.rpc = NoRpc THEN pending
                     ELSE [pending EXCEPT ![k] = [rpc |-> b.rpc, nth |-> w.n]]
       /\ out' = [kind |-> "validate", phase |-> "begin", key |-> k,
                  checked |-> TRUE, allowed |-> b.allowed, remaining |-> b.remaining,
                  resetIn |-> b.resetIn,
                  prev |-> rateLimits[k], nth |-> w.n, body |-> body,
                  lookup |-> FALSE, answered |-> b.response # NoResponse,
                  response |-> b.response, retryAfter |-> b.retryAfter,
                  before |-> rateLimits, stale |-> unswept[k],
                  swept |-> cleanupOldEntries(rateLimits, lastCleanup, now).limits,
                  unswept |-> [allowed |-> u.allowed, remaining |-> u.remaining,
                               resetIn |-> u.resetIn]]
       /\ UNCHANGED <<now, fn, customers, job, runs, cronSecret, admins, ledger,
                      adminSetupKey, admin_users, auth_users, otp_logs, fetched, calls>>

\* The procedure call of key k's waiting request returns and the handler
\* answers.
ValidateRpc(k, dbOk) ==
    LET p == pending[k] IN
    /\ p # NoPending
    /\ pending' = [pending EXCEPT ![k] = NoPending]
    /\ out' = [kind |-> "validate", phase |-> "rpc", key |-> p.rpc.clientIP,
               checked |-> FALSE, allowed |-> TRUE, remaining |-> p.rpc.remaining,
               resetIn |-> -1, prev |-> NoEntry, nth |-> p.nth,
               body |-> Json(JsString(p.rpc.accessCode)),
               lookup |-> TRUE, answered |-> TRUE,
               response |-> handlerFinish(customers, p.rpc, dbOk),
               retryAfter |-> <<>>]
    /\ UNCHANGED <<now, fn, rateLimits, lastCleanup, win, customers, job, runs,
                   cronSecret, admins, ledger,
                   unswept, adminSetupKey, admin_users, auth_users, otp_logs, fetched, calls>>

\* ------------------------------------------- auto-deactivate-expired: steps

\* The JSON response of the function (message repeats deactivated_count).
JobResponse(status, success, error, deactivated_count) ==
    [status |-> status, success |-> success, error |-> error,
     deactivated_count |-> deactivated_count]

\* A handler that skips the check of the header when CRON_SECRET is not set.
autoDeactivateBeginFailOpen(secret, authHeader, custs, t, dbOk) ==
    IF secret # "" /\ authHeader # "Bearer " \o secret
    THEN [update |-> FALSE, ids |-> {}, read |-> FALSE,
          response |-> JobResponse(401, FALSE, "Unauthorized", -1)]
    ELSE IF ~dbOk
    THEN [update |-> FALSE, ids |-> {}, read |-> TRUE,
          response |-> JobResponse(500, FALSE, "Operation failed", -1)]
    ELSE IF customersToDeactivate(custs, t) = {}
    THEN [update |-> FALSE, ids |-> {}, read |-> TRUE,
          response |-> JobResponse(200, TRUE, "", 0)]
    ELSE [update |-> TRUE, ids |-> customersToDeactivate(custs, t), read |-> TRUE,
          response |-> JobResponse(0, FALSE, "", -1)]

\* The handler up to the await of the update: its response, or the ids it is
\* about to update. authHeader is "" when the request has no Authorization
\* header, secret is "" when CRON_SECRET is not set; dbOk is FALSE when the
\* scan came back with an error; read tells whether the scan was issued.
autoDeactivateBegin(secret, authHeader, custs, t, dbOk) ==
    IF secret = ""
    THEN [update |-> FALSE, ids |-> {}, read |-> FALSE,
          response |-> JobResponse(500, FALSE, "Service configuration error", -1)]
    ELSE IF authHeader # "Bearer " \o secret
    THEN [update |-> FALSE, ids |-> {}, read |-> FALSE,
          response |-> JobResponse(401, FALSE, "Unauthorized", -1)]
    ELSE IF ~dbOk
    THEN [update |-> FALSE, ids |-> {}, read |-> TRUE,
          response |-> JobResponse(500, FALSE, "Operation failed", -1)]
    ELSE IF customersToDeactivate(custs, t) = {}
    THEN [update |-> FALSE, ids |-> {}, read |-> TRUE,
          response |-> JobResponse(200, TRUE, "", 0)]
    ELSE [update |-> TRUE, ids |-> customersToDeactivate(custs, t), read |-> TRUE,
          response |-> JobResponse(0, FALSE, "", -1)]

\* A handler that answers with the count whatever the update returned.
autoDeactivateFinishIgnoresError(ids, dbOk) ==
    JobResponse(200, TRUE, "", Cardinality(ids))

\* The handler from the answer of the update on.
autoDeactivateFinish(ids, dbOk) ==
    IF ~dbOk
    THEN JobResponse(500, FALSE, "Operation failed", -1)
    ELSE JobResponse(200, TRUE, "", Cardinality(ids))

\* runDeactivation of OverviewTab up to the await of the update; its toasts
\* are responses of status 0: info and success succeed, error does not.
runDeactivationBegin(custs, t, dbOk) ==
    IF ~dbOk
    THEN [update |-> FALSE, ids |-> {}, read |-> TRUE,
          response |-> JobResponse(0, FALSE, "Failed to run deactivation", -1)]
    ELSE IF expiredCustomers(custs, t) = {}
    THEN [update |-> FALSE, ids |-> {}, read |-> TRUE,
          response |-> JobResponse(0, TRUE, "", 0)]
    ELSE [update |-> TRUE, ids |-> expiredCustomers(custs, t), read |-> TRUE,
          response |-> JobResponse(0, FALSE, "", -1)]

\* runDeactivation of OverviewTab from the answer of the update on.
runDeactivationFinish(ids, dbOk) ==
    IF ~dbOk
    THEN JobResponse(0, FALSE, "Failed to run deactivation", -1)
    ELSE JobResponse(0, TRUE, "", Cardinality(ids))

\* A run of trigger w ends at its scan with response b.response, or goes on to
\* its update of b.ids; dbOk tells whether the store answered the scan, if one
\* was issued. One run is under way at a time.
RunBegin(w, b, dbOk) ==
    /\ \A v \in Triggers : ~job[v].running
    /\ job' = IF b.update
              THEN [job EXCEPT ![w] = [running |-> TRUE, ids |-> b.ids, after |-> runs]]
              ELSE job
    /\ runs' = IF ~b.update /\ b.response.success THEN 0 ELSE runs
    /\ out' = [kind |-> "job", who |-> w, done |-> ~b.update, response |-> b.response,
               ids |-> {}, before |-> customers, after |-> runs, read |-> b.read,
               ok |-> dbOk, selected |-> b.ids]
    /\ UNCHANGED <<now, fn, rateLimits, lastCleanup, win, pending, customers,
                   cronSecret, admins, ledger,
                   unswept, adminSetupKey, admin_users, auth_users, otp_logs, fetched, calls>>

\* The update of trigger w's run returns: table is what the store holds when
\* it performed the update (dbOk), r is what the run answers.
RunUpdate(w, table, r, dbOk) ==
    /\ job[w].running
    /\ customers' = IF dbOk THEN table ELSE customers
    /\ job' = [job EXCEPT ![w] = NoJob]
    /\ runs' = IF r.success THEN r.deactivated_count ELSE runs
    /\ out' = [kind |-> "job", who |-> w, done |-> TRUE, response |-> r,
               ids |-> IF dbOk THEN job[w].ids ELSE {},
               before |-> customers, after |-> job[w].after, read |-> TRUE,
               ok |-> dbOk, selected |-> job[w].ids]
    /\ UNCHANGED <<now, fn, rateLimits, lastCleanup, win, pending, cronSecret, admins, ledger,
                   unswept, adminSetupKey, admin_users, auth_users, otp_logs, fetched, calls>>

\* The scheduler, or anybody else, calls the function.
CronBegin(authHeader, dbOk) ==
    RunBegin("cron", autoDeactivateBegin(cronSecret, authHeader, customers, now, dbOk),
             dbOk)

CronUpdate(dbOk) ==
    RunUpdate("cron", deactivate(customers, job["cron"].ids),
              autoDeactivateFinish(job["cron"].ids, dbOk), dbOk)

\* An admin presses Run Deactivation.
AdminRunBegin(dbOk) ==
    RunBegin("admin", runDeactivationBegin(customers, now, dbOk), dbOk)

AdminRunUpdate(dbOk) ==
    RunUpdate("admin", runDeactivationUpdate(customers, job["admin"].ids),
              runDeactivationFinish(job["admin"].ids, dbOk), dbOk)

\* ------------------------------------------------------------------ pages

\* The admin customer list renders its status badges.
ViewCustomersTab ==
    /\ out' = [kind |-> "customersTab", rows |-> customers,
               badge |-> [id \in CustomerIds |-> getStatus(customers[id], now)]]
    /\ UNCHANGED <<now, fn, rateLimits, lastCleanup, win, pending, customers, job,
                   runs, cronSecret, admins, ledger,
                   unswept, adminSetupKey, admin_users, auth_users, otp_logs, fetched, calls>>

\* The orders in which a select without ORDER BY may return the rows.
RowOrders == {<<"c1", "c2">>, <<"c2", "c1">>}

\* The admin overview loads its counts and its rotation list.
ViewOverview ==
    /\ \E order \in RowOrders :
          out' = [kind |-> "overview", rows |-> customers,
                  stats |-> fetchStats(customers, now),
                  needsRotation |-> needsRotation(customers, order, now)]
    /\ UNCHANGED <<now, fn, rateLimits, lastCleanup, win, pending, customers, job,
                   runs, cronSecret, admins, ledger,
                   unswept, adminSetupKey, admin_users, auth_users, otp_logs, fetched, calls>>

\* The customer dashboard loads with the access code of its session: it
\* calls the procedure itself and leaves when no row comes back.
ViewDashboard(code) ==
    LET data == get_customer_data_by_access_code(customers, code) IN
    /\ out' = IF data = <<>>
              THEN [kind |-> "dashboard", shown |-> FALSE]
              ELSE [kind |-> "dashboard", shown |-> TRUE, row |-> data[1],
                    page |-> dashboard(data[1], now)]
    /\ UNCHANGED <<now, fn, rateLimits, lastCleanup, win, pending, customers, job,
                   runs, cronSecret, admins, ledger,
                   unswept, adminSetupKey, admin_users, auth_users, otp_logs, fetched, calls>>

\* The notification bell of the admin pages loads.
ViewNotifications ==
    /\ \E order \in RowOrders :
          out' = [kind |-> "bell", rows |-> customers,
                  notifications |-> fetchNotifications(customers, order, now)]
    /\ UNCHANGED <<now, fn, rateLimits, lastCleanup, win, pending, customers, job,
                   runs, cronSecret, admins, ledger,
                   unswept, adminSetupKey, admin_users, auth_users, otp_logs, fetched, calls>>

\* ------------------------------------------ the other functions' limiters

isRateLimitedOf(f, limits, clientIP, t) ==
    CASE f = FnCreate -> isRateLimitedCreate(limits, clientIP, t)
      [] f = FnDelete -> isRateLimitedDelete(limits, clientIP, t)
      [] f = FnOtp -> isRateLimitedOtp(limits, clientIP, t)

\* A request from key k reaches isRateLimited of create-admin-user,
\* delete-admin-user or the verification-code function.
AdminRateCheck(k) ==
    LET r == isRateLimitedOf(fn, rateLimits, k, now)
        w == NextWin(win, k, now, fn)
    IN /\ fn \in {FnCreate, FnDelete, FnOtp}
       /\ w.n <= MaxOf(fn) + ExtraCalls
       /\ rateLimits' = r.limits
       /\ win' = [win EXCEPT ![k] = w]
       /\ out' = [kind |-> "check", key |-> k, checked |-> TRUE,
                  allowed |-> ~r.limited, remaining |-> -1,
                  prev |-> rateLimits[k], nth |-> w.n, before |-> rateLimits]
       /\ UNCHANGED <<now, fn, lastCleanup, pending, customers, job, runs,
                      cronSecret, admins, ledger,
                      unswept, adminSetupKey, admin_users, auth_users, otp_logs, fetched, calls>>

\* ------------------------------------------------------- CustomersTab: admin

\* The admin sessions with CustomersTab open.
Admins == {"a1", "a2"}

\* A place of the table that holds no row yet: what the next insert fills.
NoRow == Customer(<<>>, 0, 0, FALSE, NULL, NoProfile)

Exists(custs) == {id \in CustomerIds : custs[id] # NoRow}

NotCached == -1

\* fetchCustomers: the rows a session holds in its customers state. Of a row
\* the handlers read subscription_days only; NotCached is a row it does not hold.
fetchCustomers(custs) ==
    [id \in CustomerIds |->
        IF custs[id] = NoRow THEN NotCached ELSE custs[id].subscription_days]

NoBulk == [running |-> FALSE, todo |-> <<>>, n |-> 0, days |-> 0, ok |-> 0, failed |-> 0]

FreshAdmins(custs) == [a \in Admins |-> [customers |-> fetchCustomers(custs), bulk |-> NoBulk]]

FreshLedger(custs) ==
    [expected |-> [id \in CustomerIds |-> custs[id].subscription_days],
     extends |-> 0, submits |-> 0]

\* What the admin forms offer in these behaviours.
FormAccounts == {"", "na1"}
FormProfiles == {"", "1"}
FormDays == {"30"}
BulkExtendDays == {"7", "30"}
BulkAccountIds == {"", "none", "na2"}

\* parseInt of the numbers the forms offer
parseInt(str) ==
    CASE str = "1" -> 1 [] str = "2" -> 2 [] str = "7" -> 7 [] str = "30" -> 30

\* The columns handleSubmit writes from formData.
FormRow(form) ==
    [netflix_account_id |-> IF form.netflix_account_id = "" THEN NULL
                            ELSE form.netflix_account_id,
     purchase_date |-> form.purchase_date,
     subscription_days |-> parseInt(form.subscription_days),
     is_active |-> form.is_active,
     profile_number |-> IF form.profile_number = "" THEN NoProfile
                        ELSE parseInt(form.profile_number)]

Forms ==
    [netflix_account_id : FormAccounts, purchase_date : {0},
     subscription_days : FormDays, is_active : BOOLEAN, profile_number : FormProfiles]

\* The selections of a session, in the order of Array.from(selectedCustomers).
RECURSIVE SeqsOver(_)
SeqsOver(S) ==
    IF S = {} THEN {<<>>}
    ELSE UNION {{<<x>> \o r : r \in SeqsOver(S \ {x})} : x \in S}

Selections(cache) ==
    UNION {SeqsOver(S) : S \in SUBSET {id \in CustomerIds : cache[id] # NotCached}}

Range(seq) == {seq[i] : i \in 1..Len(seq)}

\* The session's last step and what it showed.
AdminOut(a, kind, toast, selected, reported) ==
    [kind |-> kind, admin |-> a, toast |-> toast, selected |-> selected,
     reported |-> reported]

\* A session loads the page, or loads it again.
LoadCustomersTab(a) ==
    /\ ~admins[a].bulk.running
    /\ admins' = [admins EXCEPT ![a].customers = fetchCustomers(customers)]
    /\ out' = AdminOut(a, "load", "", {}, -1)
    /\ UNCHANGED <<now, fn, rateLimits, lastCleanup, win, pending, customers, job,
                   runs, cronSecret, ledger,
                   unswept, adminSetupKey, admin_users, auth_users, otp_logs, fetched, calls>>

\* What generateAccessCode returns in these behaviours: the decimal digits of
\* Math.floor(100000 + Math.random() * 900000), here 111111 or 222222.
GeneratedCodes == {Code("1"), Code("2")}

\* What the admin types into the Access Code input of the dialog: nothing,
\* 222222, 123, and 1a11111.
TypedCodes ==
    {<<>>, Code("2"), <<"1", "2", "3">>, <<"1", "a", "1", "1", "1", "1", "1">>}

IsDigit(ch) == ch \in DigitChars

\* onChange of the Access Code input: e.target.value.replace(/\D/g, '').slice(0, 6)
customAccessCodeInput(typed) ==
    LET digits == SelectSeq(typed, IsDigit)
    IN SubSeq(digits, 1, IF Len(digits) < 6 THEN Len(digits) ELSE 6)

\* formData.custom_access_code.trim() || generateAccessCode(); the input holds
\* digits only, which trim() leaves alone.
newAccessCode(custom_access_code, generated) ==
    IF custom_access_code # <<>> THEN custom_access_code ELSE generated

\* handleSubmit with the dialog opened for customer editing (from the
\* session's rows), or for a new customer when editing is "": hasName is
\* whether the name is filled in, typed what was typed into the Access Code
\* input of a new customer, generated what generateAccessCode would return,
\* dbOk whether the store is up. The insert fails on a code that is taken
\* (access_code is UNIQUE); the table has room for CustomerIds.
handleSubmit(a, editing, form, hasName, typed, generated, dbOk) ==
    LET free == CustomerIds \ Exists(customers)
        new == CHOOSE id \in free : TRUE
        accessCode == newAccessCode(customAccessCodeInput(typed), generated)
        taken == \E id \in Exists(customers) : customers[id].access_code = accessCode
        stored == IF editing # "" THEN dbOk ELSE dbOk /\ ~taken
        id == IF editing # "" THEN editing ELSE new
        row == IF editing # ""
               THEN FormRow(form) @@ [access_code |-> customers[editing].access_code]
               ELSE FormRow(form) @@ [access_code |-> accessCode]
        table == IF stored THEN [customers EXCEPT ![id] = row] ELSE customers
    IN /\ ~admins[a].bulk.running
       /\ ledger.submits < MaxSubmits
       /\ editing # "" => admins[a].customers[editing] # NotCached
       /\ editing = "" => free # {}
       /\ IF ~hasName
          THEN /\ out' = AdminOut(a, "submit", "error", {}, -1)
               /\ UNCHANGED <<customers, admins, ledger>>
          ELSE /\ customers' = table
               /\ admins' = IF stored
                            THEN [admins EXCEPT ![a].customers = fetchCustomers(table)]
                            ELSE admins
               /\ ledger' = IF stored
                            THEN [ledger EXCEPT !.expected[id] = row.subscription_days,
                                                !.submits = @ + 1]
                            ELSE [ledger EXCEPT !.submits = @ + 1]
               /\ out' = AdminOut(a, "submit", IF stored THEN "success" ELSE "error",
                                  IF stored THEN {id} ELSE {}, -1)
       /\ runs' = -1
       /\ UNCHANGED <<now, fn, rateLimits, lastCleanup, win, pending, job, cronSecret,
                      unswept, adminSetupKey, admin_users, auth_users, otp_logs, fetched, calls>>

\* regenerateCode(customerId) from a row of the session: one update of
\* access_code, which the store refuses when another row holds the code.
regenerateCode(a, customerId, generated, dbOk) ==
    LET taken == \E id \in Exists(customers) \ {customerId} :
                     customers[id].access_code = generated
        stored == dbOk /\ ~taken
    IN /\ ~admins[a].bulk.running
       /\ admins[a].customers[customerId] # NotCached
       /\ customers' = IF stored
                       THEN [customers EXCEPT ![customerId].access_code = generated]
                       ELSE customers
       /\ out' = AdminOut(a, "regenerate", IF stored THEN "success" ELSE "error",
                          {customerId}, -1)
                 @@ [before |-> customers, newCode |-> generated]
       /\ runs' = -1
       /\ UNCHANGED <<now, fn, rateLimits, lastCleanup, win, pending, job, cronSecret,
                      admins, ledger, unswept, adminSetupKey, admin_users, auth_users,
                      otp_logs, fetched, calls>>

\* handleBulkAction with nothing selected, or reassign with no account chosen.
handleBulkActionRefused(a) ==
    /\ ~admins[a].bulk.running
    /\ out' = AdminOut(a, "bulk-refused", "error", {}, -1)
    /\ UNCHANGED <<now, fn, rateLimits, lastCleanup, win, pending, customers, job,
                   runs, cronSecret, admins, ledger,
                   unswept, adminSetupKey, admin_users, auth_users, otp_logs, fetched, calls>>

\* handleBulkAction, extend: the handler starts its loop over selectedIds.
\* One loop is under way at a time; the other steps of the other session,
\* and the runs, come between its passes.
bulkExtendBegin(a, selectedIds, bulkExtendDays) ==
    /\ \A other \in Admins : ~admins[other].bulk.running
    /\ selectedIds # <<>>
    /\ ledger.extends < MaxExtends
    /\ admins' = [admins EXCEPT ![a].bulk =
                     [running |-> TRUE, todo |-> selectedIds, n |-> Len(selectedIds),
                      days |-> parseInt(bulkExtendDays), ok |-> 0, failed |-> 0]]
    /\ ledger' = [ledger EXCEPT !.extends = @ + 1]
    /\ out' = AdminOut(a, "extend-begin", "", Range(selectedIds), -1)
    /\ UNCHANGED <<now, fn, rateLimits, lastCleanup, win, pending, customers, job,
                   runs, cronSecret,
                   unswept, adminSetupKey, admin_users, auth_users, otp_logs, fetched, calls>>

\* handleBulkAction, extend: newDays of one customer of the loop
bulkExtendNewDays(cache, custs, id, days) == cache[id] + days

\* handleBulkAction, extend: one pass of the loop, the update of one customer;
\* the result of the await is not looked at.
bulkExtendItem(a, dbOk) ==
    LET b == admins[a].bulk
        id == Head(b.todo)
        newDays == bulkExtendNewDays(admins[a].customers, customers, id, b.days)
    IN /\ b.running /\ b.todo # <<>>
       /\ customers' = IF dbOk
                       THEN [customers EXCEPT ![id].subscription_days = newDays]
                       ELSE customers
       /\ admins' = [admins EXCEPT ![a].bulk =
                        [b EXCEPT !.todo = Tail(b.todo),
                                  !.ok = IF dbOk THEN @ + 1 ELSE @,
                                  !.failed = IF dbOk THEN @ ELSE @ + 1]]
       /\ ledger' = IF dbOk THEN [ledger EXCEPT !.expected[id] = @ + b.days] ELSE ledger
       /\ out' = AdminOut(a, "extend-item", "", {id}, -1)
                 @@ [id |-> id, days |-> b.days, ok |-> dbOk, before |-> customers]
       /\ runs' = -1
       /\ UNCHANGED <<now, fn, rateLimits, lastCleanup, win, pending, job, cronSecret,
                      unswept, adminSetupKey, admin_users, auth_users, otp_logs, fetched, calls>>

\* handleBulkAction, extend: the toast after the loop,
\* `Extended subscription for ${selectedIds.length} customers`; it names no failures.
bulkExtendToast(b) == [toast |-> "success", succeeded |-> b.n, failed |-> -1]

\* handleBulkAction, extend: after the loop the handler shows its toast,
\* closes the dialog and fetches the customers again.
bulkExtendEnd(a) ==
    LET b == admins[a].bulk IN
    /\ b.running /\ b.todo = <<>>
    /\ admins' = [admins EXCEPT ![a] = [customers |-> fetchCustomers(customers),
                                        bulk |-> NoBulk]]
    /\ out' = [kind |-> "extend-end", admin |-> a, report |-> bulkExtendToast(b),
               ok |-> b.ok, failed |-> b.failed]
    /\ UNCHANGED <<now, fn, rateLimits, lastCleanup, win, pending, customers, job,
                   runs, cronSecret, ledger,
                   unswept, adminSetupKey, admin_users, auth_users, otp_logs, fetched, calls>>

\* handleBulkAction, deactivate: .update({ is_active: false }).in("id", selectedIds)
bulkDeactivateUpdate(custs, ids) ==
    [id \in CustomerIds |->
        IF id \in ids THEN [custs[id] EXCEPT !.is_active = FALSE] ELSE custs[id]]

\* handleBulkAction, reassign:
\* .update({ netflix_account_id: bulkAccountId === "none" ? null : bulkAccountId })
bulkReassignUpdate(custs, ids, bulkAccountId) ==
    [id \in CustomerIds |->
        IF id \in ids
        THEN [custs[id] EXCEPT !.netflix_account_id =
                 IF bulkAccountId = "none" THEN NULL ELSE bulkAccountId]
        ELSE custs[id]]

\* handleBulkAction, deactivate or reassign: one update over the selection,
\* then the toast and the fetch; a failed update throws to the error toast.
bulkUpdate(a, kind, selectedIds, table, dbOk) ==
    /\ ~admins[a].bulk.running
    /\ selectedIds # <<>>
    /\ customers' = IF dbOk THEN table ELSE customers
    /\ admins' = IF dbOk
                 THEN [admins EXCEPT ![a].customers = fetchCustomers(table)]
                 ELSE admins
    /\ out' = AdminOut(a, kind, IF dbOk THEN "success" ELSE "error",
                       Range(selectedIds), IF dbOk THEN Len(selectedIds) ELSE -1)
    /\ runs' = -1
    /\ UNCHANGED <<now, fn, rateLimits, lastCleanup, win, pending, job, cronSecret,
                   ledger,
                   unswept, adminSetupKey, admin_users, auth_users, otp_logs, fetched, calls>>

bulkDeactivate(a, selectedIds, dbOk) ==
    bulkUpdate(a, "deactivate", selectedIds,
               bulkDeactivateUpdate(customers, Range(selectedIds)), dbOk)

bulkReassign(a, selectedIds, bulkAccountId, dbOk) ==
    /\ bulkAccountId # ""
    /\ bulkUpdate(a, "reassign", selectedIds,
                  bulkReassignUpdate(customers, Range(selectedIds), bulkAccountId), dbOk)

\* ------------------------------------- admin users and verification codes

\* How many fetches of one account may end with a code.
MaxFetches == 3

\* The ids of the users of the identity provider.
UserIds == {"u1", "u2", "u3"}

\* The clients that call the admin functions and the fetch function.
Callers == {"r1", "r2"}

\* A caller with no request in flight.
NoCall == [pc |-> "idle"]

NoFetch == [code |-> "", n |-> 0]

\* The admin and fetch functions at rest in front of a store with one admin
\* and no verification code.
QuietFunctions ==
    /\ adminSetupKey = "k3y"
    /\ admin_users = {"u1"}
    /\ auth_users = {"u1"}
    /\ otp_logs = {}
    /\ fetched = [acc \in AccountIds |-> NoFetch]
    /\ calls = [r \in Callers |-> NoCall]

\* What the steps of the admin and fetch functions leave alone.
lifecycleVars == <<lastCleanup, win, pending, customers, job, runs, cronSecret,
                   admins, ledger, unswept>>

\* The JSON response of an admin function.
AdminResponse(status, error) == [status |-> status, error |-> error, success |-> FALSE]

AdminSuccess == [status |-> 200, error |-> "", success |-> TRUE]

\* A step that has not answered yet.
NoAnswer == AdminResponse(0, "")

\* What the functions and the claims read of the two stores.
Stores == [admin_users |-> admin_users, auth_users |-> auth_users]

\* auth.admin.deleteUser(id): the users it leaves and whether it came back
\* with an error; idpOk is FALSE when the identity provider fails.
deleteUser(users, id, idpOk) ==
    IF idpOk /\ id \in users
    THEN [users |-> users \ {id}, error |-> FALSE]
    ELSE [users |-> users, error |-> TRUE]

\* ---------------------------------------------------- delete-admin-user

\* The request bodies: text that is no JSON, or {adminId, setupKey}, "" for
\* a key the object lacks; "u3" is the well-formed id of nobody.
NoJsonBody == [json |-> FALSE]

DeleteBodies ==
    {NoJsonBody}
    \cup [json : {TRUE}, adminId : {"", "not-a-uuid", "u1", "u2", "u3"},
          setupKey : {"", "k3y", "guess"}]

\* uuidRegex.test(adminId)
uuidRegexTest(adminId) == adminId \in UserIds

\* The handler up to the await of the count: the limiter's Map it leaves and
\* its response, or that it goes on.
deleteAdminBegin(limits, t, clientIP, SETUP_KEY, body) ==
    LET rl == isRateLimitedDelete(limits, clientIP, t)
        stop(status, error) ==
            [limits |-> rl.limits, proceed |-> FALSE,
             response |-> AdminResponse(status, error)]
    IN IF rl.limited
       THEN stop(429, "Too many attempts. Please try again later.")
       ELSE IF SETUP_KEY = ""
       THEN stop(500, "Admin management not available")
       ELSE IF ~body.json
       THEN stop(500, "Service temporarily unavailable")
       ELSE IF body.setupKey = "" \/ body.setupKey # SETUP_KEY
       THEN stop(403, "Invalid setup key")
       ELSE IF body.adminId = ""
       THEN stop(400, "Admin ID is required")
       ELSE IF ~uuidRegexTest(body.adminId)
       THEN stop(400, "Invalid admin ID format")
       ELSE [limits |-> rl.limits, proceed |-> TRUE, response |-> NoAnswer]

\* From the answer of the count on: adminCount holds the rows of admin_users.
deleteAdminCounted(adminCount, dbOk) ==
    IF ~dbOk
    THEN [proceed |-> FALSE,
          response |-> AdminResponse(500, "Failed to verify admin status")]
    ELSE IF Cardinality(adminCount) <= 1
    THEN [proceed |-> FALSE,
          response |-> AdminResponse(400, "Cannot delete the last admin user")]
    ELSE [proceed |-> TRUE, response |-> NoAnswer]

\* From the answer of the delete from admin_users on.
deleteAdminRemoved(dbOk) ==
    IF ~dbOk
    THEN [proceed |-> FALSE,
          response |-> AdminResponse(500, "Failed to remove admin privileges")]
    ELSE [proceed |-> TRUE, response |-> NoAnswer]

\* From the answer of auth.admin.deleteUser on: an error is logged only.
deleteAdminFinish(deleteUserError) == AdminSuccess

\* What a step of caller r's delete request shows.
DeleteOut(r, adminId, status, b) ==
    [kind |-> "delete", caller |-> r, adminId |-> adminId, step |-> status,
     done |-> ~b.proceed, response |-> b.response, before |-> Stores]

\* A request reaches delete-admin-user from key k.
DeleteBegin(r, k, body) ==
    LET b == deleteAdminBegin(rateLimits, now, k, adminSetupKey, body) IN
    /\ fn = FnDelete
    /\ calls[r] = NoCall
    /\ rateLimits' = b.limits
    /\ calls' = IF b.proceed
                THEN [calls EXCEPT ![r] = [pc |-> "count", adminId |-> body.adminId]]
                ELSE calls
    /\ out' = DeleteOut(r, IF body.json THEN body.adminId ELSE "", "begin", b)
    /\ UNCHANGED <<now, fn, lifecycleVars, adminSetupKey, admin_users, auth_users,
                   otp_logs, fetched>>

\* The count of the admins returns.
DeleteCount(r, dbOk) ==
    LET b == deleteAdminCounted(admin_users, dbOk) IN
    /\ calls[r].pc = "count"
    /\ calls' = [calls EXCEPT ![r] = IF b.proceed THEN [@ EXCEPT !.pc = "remove"]
                                     ELSE NoCall]
    /\ out' = DeleteOut(r, calls[r].adminId, "count", b)
    /\ UNCHANGED <<now, fn, rateLimits, lifecycleVars, adminSetupKey, admin_users,
                   auth_users, otp_logs, fetched>>

\* The delete from admin_users returns.
DeleteAdminRow(r, dbOk) ==
    LET b == deleteAdminRemoved(dbOk) IN
    /\ calls[r].pc = "remove"
    /\ admin_users' = IF dbOk THEN admin_users \ {calls[r].adminId} ELSE admin_users
    /\ calls' = [calls EXCEPT ![r] = IF b.proceed THEN [@ EXCEPT !.pc = "deleteUser"]
                                     ELSE NoCall]
    /\ out' = DeleteOut(r, calls[r].adminId, "remove", b)
    /\ UNCHANGED <<now, fn, rateLimits, lifecycleVars, adminSetupKey, auth_users,
                   otp_logs, fetched>>

\* auth.admin.deleteUser returns and the handler answers.
DeleteAuthUser(r, idpOk) ==
    LET d == deleteUser(auth_users, calls[r].adminId, idpOk) IN
    /\ calls[r].pc = "deleteUser"
    /\ auth_users' = d.users
    /\ calls' = [calls EXCEPT ![r] = NoCall]
    /\ out' = DeleteOut(r, calls[r].adminId, "deleteUser",
                        [proceed |-> FALSE, response |-> deleteAdminFinish(d.error)])
    /\ UNCHANGED <<now, fn, rateLimits, lifecycleVars, adminSetupKey, admin_users,
                   otp_logs, fetched>>

\* ---------------------------------------------------- create-admin-user

\* The e-mail addresses sent: none, a@b.c, a@b and "a b@c.d".
Emails ==
    {<<>>, <<"a", "@", "b", ".", "c">>, <<"a", "@", "b">>,
     <<"a", " ", "b", "@", "c", ".", "d">>}

\* The passwords sent: none, seven characters and eight.
Passwords == {"", "1234567", "12345678"}

\* The request bodies: text that is no JSON, or {email, password, setupKey}.
CreateBodies ==
    {NoJsonBody}
    \cup [json : {TRUE}, email : Emails, password : Passwords,
          setupKey : {"", "k3y", "guess"}]

\* /^[^\s@]+@[^\s@]+\.[^\s@]+$/.test(email)
emailRegexTest(email) ==
    \E i \in 1..Len(email), j \in 1..Len(email) :
        /\ 1 < i /\ i + 1 < j /\ j < Len(email)
        /\ email[i] = "@" /\ email[j] = "."
        /\ \A n \in 1..Len(email) : n # i => email[n] \notin {"@", " "}

\* The handler up to the await of auth.admin.createUser.
createAdminBegin(limits, t, clientIP, SETUP_KEY, body) ==
    LET rl == isRateLimitedCreate(limits, clientIP, t)
        stop(status, error) ==
            [limits |-> rl.limits, proceed |-> FALSE,
             response |-> AdminResponse(status, error)]
    IN IF rl.limited
       THEN stop(429, "Too many attempts. Please try again later.")
       ELSE IF SETUP_KEY = ""
       THEN stop(500, "Admin setup not configured")
       ELSE IF ~body.json
       THEN stop(500, "Internal server error")
       ELSE IF body.setupKey = "" \/ body.setupKey # SETUP_KEY
       THEN stop(403, "Invalid setup key")
       ELSE IF body.email = <<>> \/ body.password = ""
       THEN stop(400, "Email and password are required")
       ELSE IF ~emailRegexTest(body.email)
       THEN stop(400, "Invalid email format")
       ELSE IF Len(body.password) < 8
       THEN stop(400, "Password must be at least 8 characters")
       ELSE [limits |-> rl.limits, proceed |-> TRUE, response |-> NoAnswer]

\* The ids no user has had: what the identity provider gives a new user.
FreshUserIds ==
    UserIds \ (auth_users \cup admin_users
               \cup {calls[r].userId : r \in {c \in Callers : calls[c].pc = "insert"}})

\* From the answer of createUser on; createError carries the provider's message.
createAdminCreated(createError) ==
    IF createError
    THEN [proceed |-> FALSE, response |-> AdminResponse(400, "createError.message")]
    ELSE [proceed |-> TRUE, response |-> NoAnswer]

\* From the answer of the insert into admin_users on, when it succeeded.
createAdminInserted == AdminSuccess

\* From the answer of the insert on, when it failed: the handler awaits
\* deleteUser, does not look at what it returns, and answers.
createAdminCleanedUp(deleteUserError) ==
    AdminResponse(500, "Failed to create admin record")

\* What a step of caller r's create request shows; created is the id of the
\* user the request made at the identity provider, "" when it made none.
CreateOut(r, created, done, response) ==
    [kind |-> "create", caller |-> r, created |-> created, done |-> done,
     response |-> response, before |-> Stores]

\* A request reaches create-admin-user from key k.
CreateBegin(r, k, body) ==
    LET b == createAdminBegin(rateLimits, now, k, adminSetupKey, body) IN
    /\ fn = FnCreate
    /\ calls[r] = NoCall
    /\ rateLimits' = b.limits
    /\ calls' = IF b.proceed THEN [calls EXCEPT ![r] = [pc |-> "createUser"]] ELSE calls
    /\ out' = CreateOut(r, "", ~b.proceed, b.response)
    /\ UNCHANGED <<now, fn, lifecycleVars, adminSetupKey, admin_users, auth_users,
                   otp_logs, fetched>>

\* auth.admin.createUser returns: with an error when the provider fails or
\* refuses the address (idpOk FALSE), else with a user of a new id.
CreateUser(r, idpOk) ==
    LET b == createAdminCreated(~idpOk)
        id == CHOOSE u \in FreshUserIds : TRUE
    IN /\ calls[r].pc = "createUser"
       /\ idpOk => FreshUserIds # {}
       /\ auth_users' = IF idpOk THEN auth_users \cup {id} ELSE auth_users
       /\ calls' = [calls EXCEPT ![r] = IF idpOk THEN [pc |-> "insert", userId |-> id]
                                        ELSE NoCall]
       /\ out' = CreateOut(r, IF idpOk THEN id ELSE "", ~b.proceed, b.response)
       /\ UNCHANGED <<now, fn, rateLimits, lifecycleVars, adminSetupKey, admin_users,
                      otp_logs, fetched>>

\* The insert into admin_users returns.
CreateInsert(r, dbOk) ==
    /\ calls[r].pc = "insert"
    /\ admin_users' = IF dbOk THEN admin_users \cup {calls[r].userId} ELSE admin_users
    /\ calls' = [calls EXCEPT ![r] = IF dbOk THEN NoCall ELSE [@ EXCEPT !.pc = "cleanup"]]
    /\ out' = CreateOut(r, calls[r].userId, dbOk,
                        IF dbOk THEN createAdminInserted ELSE NoAnswer)
    /\ UNCHANGED <<now, fn, rateLimits, lifecycleVars, adminSetupKey, auth_users,
                   otp_logs, fetched>>

\* The deleteUser that cleans up after a failed insert returns.
CreateCleanup(r, idpOk) ==
    LET d == deleteUser(auth_users, calls[r].userId, idpOk) IN
    /\ calls[r].pc = "cleanup"
    /\ auth_users' = d.users
    /\ calls' = [calls EXCEPT ![r] = NoCall]
    /\ out' = CreateOut(r, calls[r].userId, TRUE, createAdminCleanedUp(d.error))
    /\ UNCHANGED <<now, fn, rateLimits, lifecycleVars, adminSetupKey, admin_users,
                   otp_logs, fetched>>

\* ---------------------------------------------------- fetch-netflix-otp

\* What the search of the mailbox ends with: an exception (no credentials,
\* token or search refused), no recent mail, or a link or code.
GmailResults == {"throw", "", "v1", "v2"}

\* The request bodies: the codes of the two customers, a code of nobody,
\* five digits, and text that is no JSON.
FetchBodies ==
    {Json(JsString(Code("1"))), Json(JsString(Code("2"))), Json(JsString(Code("3"))),
     Json(JsString(<<"1", "1", "1", "1", "1">>)), NotJson}

\* The JSON response of fetch-netflix-otp.
FetchResponse(status, success, error, otp_code) ==
    [status |-> status, success |-> success, error |-> error, otp_code |-> otp_code]

\* !access_code || !/^\d{6}$/.test(access_code); test() takes a number by
\* its decimal text.
fetchFormatRejected(access_code) ==
    \/ Falsy(access_code)
    \/ access_code.t \notin {"string", "number"}
    \/ access_code.t = "string" /\ ~SixDigits(access_code.s)
    \/ access_code.t = "number" /\ ~SixDigits(String(access_code.n))

\* The handler up to the await of the procedure.
fetchOtpBegin(limits, t, clientIP, body) ==
    LET rl == isRateLimitedOtp(limits, clientIP, t)
        stop(status, error) ==
            [limits |-> rl.limits, proceed |-> FALSE, accessCode |-> <<>>,
             response |-> FetchResponse(status, FALSE, error, "")]
    IN IF rl.limited
       THEN stop(429, "Too many requests. Please try again later.")
       ELSE IF ~body.json
       THEN stop(500, "Failed to fetch verification. Please try again.")
       ELSE IF fetchFormatRejected(body.access_code)
       THEN stop(400, "Valid 6-digit access code is required")
       ELSE [limits |-> rl.limits, proceed |-> TRUE, accessCode |-> body.access_code.s,
             response |-> FetchResponse(0, FALSE, "", "")]

\* From the answer of the procedure to the await of the mailbox.
fetchOtpLookedUp(custs, accessCode, dbOk) ==
    LET customerData == get_customer_data_by_access_code(custs, accessCode)
        stop(status, error) ==
            [proceed |-> FALSE, netflix_account_id |-> NULL,
             response |-> FetchResponse(status, FALSE, error, "")]
    IN IF ~dbOk
       THEN stop(500, "Service temporarily unavailable")
       ELSE IF customerData = <<>>
       THEN stop(403, "Invalid or inactive access code")
       ELSE IF customerData[1].gmail_address = NULL
       THEN stop(400, "No Gmail address linked to this account")
       ELSE [proceed |-> TRUE, netflix_account_id |-> customerData[1].netflix_account_id,
             response |-> FetchResponse(0, FALSE, "", "")]

\* From the answer of the mailbox to the await of the delete.
fetchOtpSearched(result) ==
    IF result = "throw"
    THEN [proceed |-> FALSE,
          response |-> FetchResponse(500, FALSE,
                           "Failed to fetch verification. Please try again.", "")]
    ELSE IF result = ""
    THEN [proceed |-> FALSE, response |-> FetchResponse(200, FALSE, "", "")]
    ELSE [proceed |-> TRUE, response |-> FetchResponse(0, FALSE, "", "")]

\* delete from otp_logs where netflix_account_id = id; nothing goes when the
\* statement fails.
deleteOtpLogs(logs, id, dbOk) ==
    IF dbOk THEN {row \in logs : row.netflix_account_id # id} ELSE logs

\* insert into otp_logs; fetch numbers the fetch that wrote the row, as
\* fetched_at does.
insertOtpLog(logs, id, otp_code, fetch, dbOk) ==
    IF dbOk
    THEN logs \cup {[netflix_account_id |-> id, otp_code |-> otp_code, fetch |-> fetch]}
    ELSE logs

\* From the answer of the insert on: insertError is logged and no more.
fetchOtpStored(otp_code, insertError) == FetchResponse(200, TRUE, "", otp_code)

\* What a step of caller r's fetch shows.
FetchOut(r, done, response) ==
    [kind |-> "fetch", caller |-> r, done |-> done, response |-> response]

\* A request reaches fetch-netflix-otp from key k.
FetchBegin(r, k, body) ==
    LET b == fetchOtpBegin(rateLimits, now, k, body) IN
    /\ fn = FnOtp
    /\ calls[r] = NoCall
    /\ \A acc \in AccountIds : fetched[acc].n < MaxFetches
    /\ rateLimits' = b.limits
    /\ calls' = IF b.proceed
                THEN [calls EXCEPT ![r] = [pc |-> "rpc", accessCode |-> b.accessCode]]
                ELSE calls
    /\ out' = FetchOut(r, ~b.proceed, b.response)
    /\ UNCHANGED <<now, fn, lifecycleVars, adminSetupKey, admin_users, auth_users,
                   otp_logs, fetched>>

\* get_customer_data_by_access_code returns.
FetchLookup(r, dbOk) ==
    LET b == fetchOtpLookedUp(customers, calls[r].accessCode, dbOk) IN
    /\ calls[r].pc = "rpc"
    /\ calls' = [calls EXCEPT ![r] =
                    IF b.proceed
                    THEN [pc |-> "gmail", netflix_account_id |-> b.netflix_account_id]
                    ELSE NoCall]
    /\ out' = FetchOut(r, ~b.proceed, b.response)
    /\ UNCHANGED <<now, fn, rateLimits, lifecycleVars, adminSetupKey, admin_users,
                   auth_users, otp_logs, fetched>>

\* getAccessToken and fetchNetflixVerification end.
FetchGmail(r, result) ==
    LET b == fetchOtpSearched(result) IN
    /\ calls[r].pc = "gmail"
    /\ calls' = [calls EXCEPT ![r] =
                    IF b.proceed
                    THEN [pc |-> "delete", netflix_account_id |-> @.netflix_account_id,
                          otp_code |-> result]
                    ELSE NoCall]
    /\ out' = FetchOut(r, ~b.proceed, b.response)
    /\ UNCHANGED <<now, fn, rateLimits, lifecycleVars, adminSetupKey, admin_users,
                   auth_users, otp_logs, fetched>>

\* The delete of the account's old entries returns; nothing reads its result.
FetchDelete(r, dbOk) ==
    /\ calls[r].pc = "delete"
    /\ otp_logs' = deleteOtpLogs(otp_logs, calls[r].netflix_account_id, dbOk)
    /\ calls' = [calls EXCEPT ![r] = [@ EXCEPT !.pc = "insert"]]
    /\ out' = FetchOut(r, FALSE, FetchResponse(0, FALSE, "", ""))
    /\ UNCHANGED <<now, fn, rateLimits, lifecycleVars, adminSetupKey, admin_users,
                   auth_users, fetched>>

\* The insert returns and the handler answers with what it retrieved.
FetchInsert(r, dbOk) ==
    LET acc == calls[r].netflix_account_id
        nth == fetched[acc].n + 1
    IN /\ calls[r].pc = "insert"
       /\ otp_logs' = insertOtpLog(otp_logs, acc, calls[r].otp_code, nth, dbOk)
       /\ fetched' = [fetched EXCEPT ![acc] = [code |-> calls[r].otp_code, n |-> nth]]
       /\ calls' = [calls EXCEPT ![r] = NoCall]
       /\ out' = FetchOut(r, TRUE, fetchOtpStored(calls[r].otp_code, ~dbOk))
       /\ UNCHANGED <<now, fn, rateLimits, lifecycleVars, adminSetupKey, admin_users,
                      auth_users>>

\* ------------------------------------------------------------------ clock

\* d ticks pass. What was answered belongs to the instant left behind, and a
\* deactivation run in flight no longer runs "with no time elapsed".
Tick(d) ==
    /\ now' = now + d
    /\ out' = NoOut
    /\ runs' = -1
    /\ job' = [w \in Triggers |-> [job[w] EXCEPT !.after = -1]]
    /\ UNCHANGED <<fn, rateLimits, lastCleanup, win, pending, customers,
                   cronSecret, admins, ledger,
                   unswept, adminSetupKey, admin_users, auth_users, otp_logs, fetched, calls>>

\* The clock step of the rate-limiter behaviours: one tick in front of
\* validate-access-code, whose sweep interval is two ticks, and a third of the
\* window in front of the functions that only count.
StepOf(f) == IF f = FnValidate THEN 1 ELSE WindowOf(f) \div 3

TickFine ==
    /\ now < WindowOf(fn) + Slack * StepOf(fn)
    /\ Tick(StepOf(fn))

\* Half a day passes; no request and no run stays in flight that long.
TickCoarse ==
    /\ now < MaxHalfDays * HalfDay
    /\ \A k \in Keys : pending[k] = NoPending
    /\ \A w \in Triggers : ~job[w].running
    /\ Tick(HalfDay)

\* --------------------------------------------------- rate-limiter behaviours

\* One isolate of one of the four functions, just loaded, in front of a store
\* with an active customer who holds a slot and an inactive one.
InitRL ==
    /\ now = 0
    /\ fn \in Functions
    /\ rateLimits = EmptyLimits
    /\ lastCleanup = 0
    /\ win = [k \in Keys |-> [n |-> 0, end |-> 0]]
    /\ pending = [k \in Keys |-> NoPending]
    /\ customers = [id \in CustomerIds |->
                      IF id = "c1" THEN Customer(Code("1"), 0, 30, TRUE, "na1", 1)
                      ELSE Customer(Code("2"), 0, 30, FALSE, NULL, NoProfile)]
    /\ job = [w \in Triggers |-> NoJob]
    /\ runs = -1
    /\ cronSecret = "s3cret"
    /\ admins = FreshAdmins(customers)
    /\ ledger = FreshLedger(customers)
    /\ unswept = EmptyLimits
    /\ QuietFunctions
    /\ out = NoOut

\* The keys that send requests in these behaviours: both to the functions that
\* only count, one to the function that also parses and looks up.
ClientsOf(f) == IF f = FnValidate THEN {"ip1"} ELSE Keys

NextRL ==
    \/ \E k \in ClientsOf(fn) : Preflight(k)
    \/ \E k \in ClientsOf(fn), body \in Bodies :
          ValidateBegin(k, body, MAX_ATTEMPTS + ExtraCalls)
    \/ \E k \in Keys, dbOk \in BOOLEAN : ValidateRpc(k, dbOk)
    \/ \E k \in ClientsOf(fn) : AdminRateCheck(k)
    \/ TickFine

SpecRL == InitRL /\ [][NextRL]_vars

\* The body sent when both keys call validate-access-code: a code of five
\* digits, which the handler answers without a call of the procedure.
KeyBodies == {Json(JsString(<<"1", "1", "1", "1", "1">>))}

\* The isolate of validate-access-code, just loaded, with two keys calling.
InitKeys ==
    /\ InitRL
    /\ fn = FnValidate

NextKeys ==
    \/ \E k \in Keys, body \in KeyBodies :
          ValidateBegin(k, body, MAX_ATTEMPTS + ExtraCalls)
    \/ TickFine

SpecKeys == InitKeys /\ [][NextKeys]_vars

\* ------------------------------------------------------ admin-user behaviours

\* The isolate of delete-admin-user in front of one admin or two, each with
\* its login; ADMIN_SETUP_KEY is set or not. One key sends the requests, up
\* to two of them in flight at a time.
InitDelete ==
    /\ now = 0
    /\ fn = FnDelete
    /\ rateLimits = EmptyLimits
    /\ lastCleanup = 0
    /\ win = [k \in Keys |-> [n |-> 0, end |-> 0]]
    /\ pending = [k \in Keys |-> NoPending]
    /\ customers = [id \in CustomerIds |->
                      IF id = "c1" THEN Customer(Code("1"), 0, 30, TRUE, "na1", 1)
                      ELSE Customer(Code("2"), 0, 30, FALSE, NULL, NoProfile)]
    /\ job = [w \in Triggers |-> NoJob]
    /\ runs = -1
    /\ cronSecret = "s3cret"
    /\ admins = FreshAdmins(customers)
    /\ ledger = FreshLedger(customers)
    /\ unswept = EmptyLimits
    /\ adminSetupKey \in {"", "k3y"}
    /\ admin_users \in {{"u1"}, {"u1", "u2"}}
    /\ auth_users = admin_users
    /\ otp_logs = {}
    /\ fetched = [acc \in AccountIds |-> NoFetch]
    /\ calls = [r \in Callers |-> NoCall]
    /\ out = NoOut

NextDelete ==
    \/ \E r \in Callers, body \in DeleteBodies : DeleteBegin(r, "ip1", body)
    \/ \E r \in Callers, dbOk \in BOOLEAN : DeleteCount(r, dbOk)
    \/ \E r \in Callers, dbOk \in BOOLEAN : DeleteAdminRow(r, dbOk)
    \/ \E r \in Callers, idpOk \in BOOLEAN : DeleteAuthUser(r, idpOk)

SpecDelete == InitDelete /\ [][NextDelete]_vars

\* The isolate of create-admin-user in front of one admin with its login.
InitCreate ==
    /\ now = 0
    /\ fn = FnCreate
    /\ rateLimits = EmptyLimits
    /\ lastCleanup = 0
    /\ win = [k \in Keys |-> [n |-> 0, end |-> 0]]
    /\ pending = [k \in Keys |-> NoPending]
    /\ customers = [id \in CustomerIds |->
                      IF id = "c1" THEN Customer(Code("1"), 0, 30, TRUE, "na1", 1)
                      ELSE Customer(Code("2"), 0, 30, FALSE, NULL, NoProfile)]
    /\ job = [w \in Triggers |-> NoJob]
    /\ runs = -1
    /\ cronSecret = "s3cret"
    /\ admins = FreshAdmins(customers)
    /\ ledger = FreshLedger(customers)
    /\ unswept = EmptyLimits
    /\ adminSetupKey \in {"", "k3y"}
    /\ admin_users = {"u1"}
    /\ auth_users = {"u1"}
    /\ otp_logs = {}
    /\ fetched = [acc \in AccountIds |-> NoFetch]
    /\ calls = [r \in Callers |-> NoCall]
    /\ out = NoOut

NextCreate ==
    \/ \E r \in Callers, body \in CreateBodies : CreateBegin(r, "ip1", body)
    \/ \E r \in Callers, idpOk \in BOOLEAN : CreateUser(r, idpOk)
    \/ \E r \in Callers, dbOk \in BOOLEAN : CreateInsert(r, dbOk)
    \/ \E r \in Callers, idpOk \in BOOLEAN : CreateCleanup(r, idpOk)

SpecCreate == InitCreate /\ [][NextCreate]_vars

\* The isolate of fetch-netflix-otp in front of two active customers: c1 on
\* account na1, c2 on na1 too or on no account.
InitOtp ==
    /\ now = 0
    /\ fn = FnOtp
    /\ rateLimits = EmptyLimits
    /\ lastCleanup = 0
    /\ win = [k \in Keys |-> [n |-> 0, end |-> 0]]
    /\ pending = [k \in Keys |-> NoPending]
    /\ \E account \in {"na1", NULL} :
          customers = [id \in CustomerIds |->
                          IF id = "c1" THEN Customer(Code("1"), 0, 30, TRUE, "na1", 1)
                          ELSE Customer(Code("2"), 0, 30, TRUE, account,
                                        IF account = NULL THEN NoProfile ELSE 2)]
    /\ job = [w \in Triggers |-> NoJob]
    /\ runs = -1
    /\ cronSecret = "s3cret"
    /\ admins = FreshAdmins(customers)
    /\ ledger = FreshLedger(customers)
    /\ unswept = EmptyLimits
    /\ QuietFunctions
    /\ out = NoOut

NextOtp ==
    \/ \E r \in Callers, body \in FetchBodies : FetchBegin(r, "ip1", body)
    \/ \E r \in Callers, dbOk \in BOOLEAN : FetchLookup(r, dbOk)
    \/ \E r \in Callers, result \in GmailResults : FetchGmail(r, result)
    \/ \E r \in Callers, dbOk \in BOOLEAN : FetchDelete(r, dbOk)
    \/ \E r \in Callers, dbOk \in BOOLEAN : FetchInsert(r, dbOk)

SpecOtp == InitOtp /\ [][NextOtp]_vars

\* ------------------------------------------------------ lifecycle behaviours

AuthHeaders == {"", "Bearer ", "Bearer s3cret", "Bearer guess"}

\* The bodies sent in the lifecycle behaviours: the three well-formed codes
\* and a code of five digits.
LifeBodies ==
    {Json(JsString(Code("1"))), Json(JsString(Code("2"))), Json(JsString(Code("3"))),
     Json(JsString(<<"1", "1", "1", "1", "1">>))}

\* The isolate of validate-access-code in front of a store of two customers:
\* c1 is active, holds profile 1 of the account and has a plan of 1 or 9 days
\* bought on day 0; c2, active or not, has a plan of 1 day bought on day 1,
\* with or without a slot. CRON_SECRET is set or not.
Init ==
    /\ now = 0
    /\ fn = FnValidate
    /\ rateLimits = EmptyLimits
    /\ lastCleanup = 0
    /\ win = [k \in Keys |-> [n |-> 0, end |-> 0]]
    /\ pending = [k \in Keys |-> NoPending]
    /\ \E sd \in {1, 9}, a2 \in BOOLEAN, slot2 \in BOOLEAN :
          customers = [id \in CustomerIds |->
              IF id = "c1" THEN Customer(Code("1"), 0, sd, TRUE, "na1", 1)
              ELSE Customer(Code("2"), 1, 1, a2,
                            IF slot2 THEN "na1" ELSE NULL,
                            IF slot2 THEN 2 ELSE NoProfile)]
    /\ job = [w \in Triggers |-> NoJob]
    /\ runs = -1
    /\ cronSecret \in {"", "s3cret"}
    /\ admins = FreshAdmins(customers)
    /\ ledger = FreshLedger(customers)
    /\ unswept = EmptyLimits
    /\ QuietFunctions
    /\ out = NoOut

Next ==
    \/ \E k \in ClientsOf(fn) : Preflight(k)
    \/ \E k \in ClientsOf(fn), body \in LifeBodies : ValidateBegin(k, body, LifeCalls)
    \/ \E k \in Keys, dbOk \in BOOLEAN : ValidateRpc(k, dbOk)
    \/ \E authHeader \in AuthHeaders, dbOk \in BOOLEAN : CronBegin(authHeader, dbOk)
    \/ \E dbOk \in BOOLEAN : CronUpdate(dbOk)
    \/ \E dbOk \in BOOLEAN : AdminRunBegin(dbOk)
    \/ \E dbOk \in BOOLEAN : AdminRunUpdate(dbOk)
    \/ ViewCustomersTab
    \/ ViewOverview
    \/ \E d \in {"1", "2"} : ViewDashboard(Code(d))
    \/ TickCoarse

Spec == Init /\ [][Next]_vars

\* --------------------------------------------------------- status behaviours

\* The plans followed day by day: c1 bought on day 0 for 1, 8, 30 or 45 days,
\* c2 bought on day 0 or on day 3 for 30 days; either may be inactive.
InitDates ==
    /\ now = 0
    /\ fn = FnValidate
    /\ rateLimits = EmptyLimits
    /\ lastCleanup = 0
    /\ win = [k \in Keys |-> [n |-> 0, end |-> 0]]
    /\ pending = [k \in Keys |-> NoPending]
    /\ \E sd \in {1, 8, 30, 45}, pd2 \in {0, 3}, a1 \in BOOLEAN, a2 \in BOOLEAN :
          customers = [id \in CustomerIds |->
              IF id = "c1" THEN Customer(Code("1"), 0, sd, a1, "na1", 1)
              ELSE Customer(Code("2"), pd2, 30, a2, "na1", 2)]
    /\ job = [w \in Triggers |-> NoJob]
    /\ runs = -1
    /\ cronSecret = "s3cret"
    /\ admins = FreshAdmins(customers)
    /\ ledger = FreshLedger(customers)
    /\ unswept = EmptyLimits
    /\ QuietFunctions
    /\ out = NoOut

\* Half a day passes, up to MaxDays days.
TickDates ==
    /\ now < MaxDays * Day
    /\ Tick(HalfDay)

NextDates ==
    \/ ViewCustomersTab
    \/ ViewOverview
    \/ ViewNotifications
    \/ \E d \in {"1", "2"} : ViewDashboard(Code(d))
    \/ TickDates

SpecDates == InitDates /\ [][NextDates]_vars

\* ---------------------------------------------------------- admin behaviours

\* An admin session over a table with one customer, active on profile 1 of
\* account na1 with a plan of 1 day bought two days before the behaviour
\* starts, which no deactivation run has reached yet, and room for one more.
\* The clock stands still: admin steps and runs follow one another at once.
InitSlots ==
    /\ now = 0
    /\ fn = FnValidate
    /\ rateLimits = EmptyLimits
    /\ lastCleanup = 0
    /\ win = [k \in Keys |-> [n |-> 0, end |-> 0]]
    /\ pending = [k \in Keys |-> NoPending]
    /\ customers = [id \in CustomerIds |->
                      IF id = "c1" THEN Customer(Code("1"), -2, 1, TRUE, "na1", 1)
                      ELSE NoRow]
    /\ job = [w \in Triggers |-> NoJob]
    /\ runs = -1
    /\ cronSecret = "s3cret"
    /\ admins = FreshAdmins(customers)
    /\ ledger = FreshLedger(customers)
    /\ unswept = EmptyLimits
    /\ QuietFunctions
    /\ out = NoOut

\* The session that assigns, reassigns and deactivates in these behaviours.
SlotAdmins == {"a1"}

\* Creating, editing, new access codes, bulk deactivation, bulk reassignment
\* and scheduled runs.
NextSlots ==
    \/ \E a \in SlotAdmins, form \in Forms, hasName \in BOOLEAN,
          typed \in TypedCodes, generated \in GeneratedCodes, dbOk \in BOOLEAN :
          handleSubmit(a, "", form, hasName, typed, generated, dbOk)
    \/ \E a \in SlotAdmins, editing \in CustomerIds, form \in Forms,
          hasName \in BOOLEAN, dbOk \in BOOLEAN :
          handleSubmit(a, editing, form, hasName, <<>>, Code("1"), dbOk)
    \/ \E a \in SlotAdmins, customerId \in CustomerIds, generated \in GeneratedCodes,
          dbOk \in BOOLEAN :
          regenerateCode(a, customerId, generated, dbOk)
    \/ \E a \in SlotAdmins : handleBulkActionRefused(a)
    \/ \E a \in SlotAdmins, dbOk \in BOOLEAN :
          \E selectedIds \in Selections(admins[a].customers) :
              bulkDeactivate(a, selectedIds, dbOk)
    \/ \E a \in SlotAdmins, bulkAccountId \in BulkAccountIds, dbOk \in BOOLEAN :
          \E selectedIds \in Selections(admins[a].customers) :
              bulkReassign(a, selectedIds, bulkAccountId, dbOk)
    \/ \E dbOk \in BOOLEAN : CronBegin("Bearer s3cret", dbOk)
    \/ \E dbOk \in BOOLEAN : CronUpdate(dbOk)

SpecSlots == InitSlots /\ [][NextSlots]_vars

\* Two admin sessions, each with the page loaded, over a table of two active
\* customers with plans of 1 day and of 30 days bought today.
InitExtend ==
    /\ now = 0
    /\ fn = FnValidate
    /\ rateLimits = EmptyLimits
    /\ lastCleanup = 0
    /\ win = [k \in Keys |-> [n |-> 0, end |-> 0]]
    /\ pending = [k \in Keys |-> NoPending]
    /\ customers = [id \in CustomerIds |->
                      IF id = "c1" THEN Customer(Code("1"), 0, 1, TRUE, "na1", 1)
                      ELSE Customer(Code("2"), 0, 30, TRUE, "na1", 2)]
    /\ job = [w \in Triggers |-> NoJob]
    /\ runs = -1
    /\ cronSecret = "s3cret"
    /\ admins = FreshAdmins(customers)
    /\ ledger = FreshLedger(customers)
    /\ unswept = EmptyLimits
    /\ QuietFunctions
    /\ out = NoOut

\* Bulk extends from the two sessions, and page loads.
NextExtend ==
    \/ \E a \in Admins : LoadCustomersTab(a)
    \/ \E a \in Admins : handleBulkActionRefused(a)
    \/ \E a \in Admins, days \in BulkExtendDays :
          \E selectedIds \in Selections(admins[a].customers) :
              bulkExtendBegin(a, selectedIds, days)
    \/ \E a \in Admins, dbOk \in BOOLEAN : bulkExtendItem(a, dbOk)
    \/ \E a \in Admins : bulkExtendEnd(a)

SpecExtend == InitExtend /\ [][NextExtend]_vars

\* ================================================================== claims

\* The instant at which the subscription window of customer record c ends.
WindowEnd(c) == (c.purchase_date + c.subscription_days) * Day

\* The body carries a string of exactly six ASCII digits.
WellFormed(body) ==
    /\ body.json
    /\ body.access_code.t = "string"
    /\ Len(body.access_code.s) = 6
    /\ \A i \in 1..6 : body.access_code.s[i] \in DigitChars

\* The latest step was a non-preflight request to validate-access-code that
\* has got its response.
Answered == out.kind = "validate" /\ out.answered

\* C1: a request whose code belongs to a customer whose subscription window
\* has ended (purchase_date + subscription_days is not after now) is denied
\* and its response carries no credentials, whether or not a deactivation run
\* has reached that customer.
C1_EndedWindowIsDenied ==
    (Answered /\ WellFormed(out.body)) =>
        \A id \in CustomerIds :
            (/\ customers[id].access_code = out.body.access_code.s
             /\ WindowEnd(customers[id]) <= now)
            => (out.response.status # 200 /\ out.response.customer = <<>>)

\* What a client at key k gets for the code, from the state the limiter, the
\* sweep and the store are in, when the store answers (dbOk) or fails.
ResponseTo(k, code, dbOk) ==
    LET b == handlerBegin(rateLimits, lastCleanup, now, k, Json(JsString(code)))
    IN IF b.rpc = NoRpc THEN b.response ELSE handlerFinish(customers, b.rpc, dbOk)

SampleCodes == {Code("1"), Code("2"), Code("3")}

\* C2: from one state of the limiter, a well-formed code of an inactive
\* customer and a well-formed code of no customer get the same response:
\* status, keys of the body and every value in it.
C2_InactiveLikeUnknown ==
    \A k \in Keys, a \in SampleCodes, b \in SampleCodes, dbOk \in BOOLEAN :
        (/\ \E id \in CustomerIds :
                customers[id].access_code = a /\ ~customers[id].is_active
         /\ \A id \in CustomerIds : customers[id].access_code # b)
        => ResponseTo(k, a, dbOk) = ResponseTo(k, b, dbOk)

\* A request for the code of an inactive customer has been answered 403.
C2_Witness ==
    /\ Answered /\ out.lookup /\ out.response = Denied
    /\ \E id \in CustomerIds :
          /\ customers[id].access_code = out.body.access_code.s
          /\ ~customers[id].is_active

\* C3: a request whose access_code is not a string of exactly six ASCII
\* digits gets an error response at once, and no call of the procedure is
\* made for it or left waiting.
C3_MalformedNoLookup ==
    /\ (out.kind = "validate" /\ ~WellFormed(out.body)) =>
          /\ out.answered /\ ~out.lookup
          /\ out.response.status \in {400, 429, 500}
          /\ out.response.keys \subseteq {"error", "retry_after"}
    /\ \A k \in Keys :
          pending[k] # NoPending => WellFormed(Json(JsString(pending[k].rpc.accessCode)))

\* A code of seven digits has been answered 400.
C3_Witness ==
    /\ Answered /\ out.response = BadFormat
    /\ out.body.access_code.t = "string" /\ Len(out.body.access_code.s) = 7

\* The latest step asked the limiter of the function.
Checked == out.kind \in {"validate", "check"} /\ out.checked

\* C4: of the calls a key makes in one window (out.nth counts them from the
\* call that opened it), exactly the first max are allowed, and the stored
\* attempts never exceed max, for the policy of each of the four functions.
C4_FirstMaxAllowed ==
    /\ \A k \in Keys : rateLimits[k].attempts <= MaxOf(fn)
    /\ Checked => (out.allowed <=> out.nth <= MaxOf(fn))

\* The call after the (max+1)th of a window has been denied as well.
C4_Witness ==
    /\ Checked /\ ~out.allowed /\ out.nth = MaxOf(fn) + 2
    /\ rateLimits[out.key].attempts = MaxOf(fn)

\* C5: a call for a key whose resetAt has elapsed is allowed, with remaining
\* max - 1 where the limiter reports it, and leaves attempts = 1 and
\* resetAt = now + window, whatever the elapsed window had counted.
C5_ElapsedWindowResets ==
    (Checked /\ out.prev.present /\ now > out.prev.resetAt) =>
        /\ out.allowed
        /\ out.kind = "validate" => out.remaining = MaxOf(fn) - 1
        /\ rateLimits[out.key] = Entry(1, now + WindowOf(fn))

\* A key whose elapsed window was used up has called again.
C5_Witness ==
    /\ Checked /\ out.prev.present /\ now > out.prev.resetAt
    /\ out.prev.attempts = MaxOf(fn) /\ out.allowed

\* C6: every non-preflight request to validate-access-code counts, whatever
\* its body: the stored attempts are the requests of the window up to max,
\* and a request after max requests of the window is answered 429.
C6_EveryRequestCounts ==
    /\ \A k \in Keys :
          (/\ fn = FnValidate
           /\ win[k].n > 0 /\ rateLimits[k].present /\ rateLimits[k].resetAt = win[k].end)
          => rateLimits[k].attempts =
                IF win[k].n <= MAX_ATTEMPTS THEN win[k].n ELSE MAX_ATTEMPTS
    /\ (out.kind = "validate" /\ out.phase = "begin") =>
          /\ out.prev # rateLimits[out.key]
             \/ (out.answered /\ out.response.status = 429)
          /\ out.nth > MAX_ATTEMPTS <=> (out.answered /\ out.response.status = 429)

\* The sixth request of a window, a well-formed one, was answered 429 with
\* no lookup under way.
C6_Witness ==
    /\ out.kind = "validate" /\ out.phase = "begin" /\ out.nth = MAX_ATTEMPTS + 1
    /\ WellFormed(out.body) /\ out.response.status = 429
    /\ \A k \in Keys : pending[k] = NoPending

\* The latest step ended a deactivation run, scheduled or manual.
RunEnded == out.kind = "job" /\ out.done

\* C7: every customer a deactivation run, scheduled or manual, has
\* deactivated is left with is_active false, no netflix account and no
\* profile number.
C7_DeactivationReleasesSlot ==
    (RunEnded /\ out.response.success) =>
        \A id \in out.ids :
            /\ ~customers[id].is_active
            /\ customers[id].netflix_account_id = NULL
            /\ customers[id].profile_number = NoProfile

\* A run has deactivated a customer who held an account and a profile.
C7_Witness ==
    /\ RunEnded /\ out.response.success
    /\ \E id \in out.ids :
          /\ out.before[id].is_active
          /\ out.before[id].netflix_account_id # NULL
          /\ out.before[id].profile_number # NoProfile

\* C8: a run that follows a completed run with no time elapsed and no other
\* write in between changes no customer record, and the count it reports is 0.
C8_SecondRunDoesNothing ==
    (RunEnded /\ out.after >= 0) =>
        /\ customers = out.before
        /\ out.response.success => out.response.deactivated_count = 0

\* A run has followed, at the same instant, a run that deactivated somebody.
C8_Witness ==
    /\ RunEnded /\ out.after >= 1
    /\ out.response.success /\ out.response.deactivated_count = 0

\* The active customers of the table the status computation calls Expired.
ExpiredByStatus(rows, t) ==
    {id \in CustomerIds : rows[id].is_active /\ getStatus(rows[id], t).status = "expired"}

\* C9: the customers a completed run deactivates are exactly the active
\* customers the status computation classifies as Expired at that instant.
C9_OneExpiryBoundary ==
    (RunEnded /\ out.response.success) => out.ids = ExpiredByStatus(out.before, now)

\* The active customers of the table with a subscription of a day or more and
\* daysRemaining = 0.
ZeroDaysLeft(rows, t) ==
    {id \in CustomerIds : /\ rows[id].is_active
                          /\ rows[id].subscription_days >= 1
                          /\ daysRemaining(rows[id], t) = 0}

\* C10: an active customer with daysRemaining = 0 gets the Expired badge in
\* the admin list, is counted as expired and not as active by the overview,
\* and is shown as expired, not as expiring soon, by the customer dashboard.
C10_ZeroDaysIsExpired ==
    /\ out.kind = "customersTab" =>
          \A id \in ZeroDaysLeft(out.rows, now) :
              out.badge[id].label = "Expired" /\ out.badge[id].status = "expired"
    /\ out.kind = "overview" =>
          /\ out.stats.activeSubscriptions <=
                Cardinality({id \in CustomerIds : out.rows[id].is_active}
                            \ ZeroDaysLeft(out.rows, now))
          /\ out.stats.expiredSubscriptions >= Cardinality(ZeroDaysLeft(out.rows, now))
    /\ (out.kind = "dashboard" /\ out.shown) =>
          ((/\ out.row.is_active
            /\ out.row.subscription_days >= 1
            /\ daysRemaining(out.row, now) = 0)
           => (out.page.isExpired /\ ~out.page.isExpiringSoon))

\* The admin list has rendered the badge of an active customer half a day
\* before the end of the subscription.
C10_Witness ==
    /\ out.kind = "customersTab"
    /\ \E id \in ZeroDaysLeft(out.rows, now) :
          now < WindowEnd(out.rows[id]) /\ out.badge[id].label = "Expired"

\* C11: an inactive customer gets the status Inactive whatever its dates and
\* the clock; an active one gets Expired when daysRemaining <= 0, the
\* expiring-soon badge with its days when 0 < daysRemaining <= 7, and Active
\* when daysRemaining > 7.
C11_StatusCases ==
    out.kind = "customersTab" =>
        \A id \in CustomerIds :
            LET c == out.rows[id]
                d == daysRemaining(c, now)
                b == out.badge[id]
            IN /\ ~c.is_active => (b.label = "Inactive" /\ b.status = "inactive")
               /\ (c.is_active /\ d <= 0) => (b.label = "Expired" /\ b.status = "expired")
               /\ (c.is_active /\ 0 < d /\ d <= 7) =>
                     (b.label = "d left" /\ b.days = d /\ b.status = "active")
               /\ (c.is_active /\ d > 7) => (b.label = "Active" /\ b.status = "active")

\* The list has shown Inactive for a customer whose plan ended days ago.
C11_Witness ==
    /\ out.kind = "customersTab"
    /\ \E id \in CustomerIds :
          /\ ~out.rows[id].is_active
          /\ daysRemaining(out.rows[id], now) < 0
          /\ out.badge[id].label = "Inactive"

\* Whole calendar days from the date of instant t to the end date of c.
CalendarDaysLeft(c, t) == c.purchase_date + c.subscription_days - t \div Day

\* C12: the badge of an active customer follows the whole calendar days from
\* the current date to purchase_date + subscription_days, the same at every
\* instant of a date: Expired at 0 or less, that many days left up to 7.
C12_WholeCalendarDays ==
    out.kind = "customersTab" =>
        \A id \in CustomerIds :
            LET c == out.rows[id]
                d == CalendarDaysLeft(c, now)
                b == out.badge[id]
            IN c.is_active =>
                 /\ d <= 0 => b.label = "Expired"
                 /\ (0 < d /\ d <= 7) => (b.label = "d left" /\ b.days = d)
                 /\ d > 7 => b.label = "Active"

\* The scenario of C12 at noon: bought on day 0 for 30 days, seen on day 24.
C12_Scenario ==
    (out.kind = "customersTab" /\ now = 24 * Day + HalfDay) =>
        \A id \in CustomerIds :
            (/\ out.rows[id].is_active
             /\ out.rows[id].purchase_date = 0
             /\ out.rows[id].subscription_days = 30)
            => out.badge[id].days = 6

\* The rotation rule: active, unexpired, a plan of 30 days or more, and at
\* most 7 days to the next multiple of 30 days since the purchase.
RotationDue(c, t) ==
    /\ c.is_active /\ daysRemaining(c, t) > 0
    /\ c.subscription_days >= 30
    /\ daysUntilRotation(c, t) <= 7

\* The customers a list of notices or rotation entries names.
IdsOf(list) == {list[i].id : i \in 1..Len(list)}

\* C19: the overview's rotation list and the bell's rotation notices name
\* exactly the customers for whom the rotation rule holds.
C19_RotationRule ==
    /\ out.kind = "overview" =>
          IdsOf(out.needsRotation) =
              {id \in CustomerIds : RotationDue(out.rows[id], now)}
    /\ out.kind = "bell" =>
          IdsOf(SelectSeq(out.notifications, LAMBDA n : n.type = "rotation")) =
              {id \in CustomerIds : RotationDue(out.rows[id], now)}

\* C20: every notice of the bell, expiring or rotation, is for a customer
\* who is active and has daysRemaining > 0.
C20_NoticesOnlyForUnexpired ==
    out.kind = "bell" =>
        \A i \in 1..Len(out.notifications) :
            LET c == out.rows[out.notifications[i].id]
            IN c.is_active /\ daysRemaining(c, now) > 0

\* The run took back the slot of customer id: inactive, no account, no profile.
Released(id) ==
    /\ ~customers[id].is_active
    /\ customers[id].netflix_account_id = NULL
    /\ customers[id].profile_number = NoProfile

\* C13: a run leaves the table as it found it or with every customer it had
\* selected released and the others untouched; a run whose scan or update
\* failed leaves it as it found it, and the function answers such a run
\* with status 500, success false and no deactivated count.
C13_FailedRunChangesNothing ==
    RunEnded =>
        /\ \/ customers = out.before
           \/ /\ \A id \in out.selected : Released(id)
              /\ \A id \in CustomerIds \ out.selected : customers[id] = out.before[id]
        /\ (out.read /\ ~out.ok) =>
              /\ customers = out.before
              /\ ~out.response.success
              /\ out.response.deactivated_count = -1
              /\ out.who = "cron" =>
                    out.response = JobResponse(500, FALSE, "Operation failed", -1)

\* The update of a scheduled run that had found an ended plan has failed.
C13_Witness ==
    /\ RunEnded /\ out.who = "cron" /\ out.read /\ ~out.ok
    /\ out.selected # {} /\ out.response.status = 500
    /\ \E id \in out.selected : customers[id].is_active

\* C14: whatever header comes in, the function issues no scan and no update
\* unless CRON_SECRET is set and the header is "Bearer " followed by it; it
\* answers 500 when the secret is not set, and otherwise one and the same
\* 401 body, which is not the header, to a missing and to a wrong header.
C14_TriggerFailsClosed ==
    /\ \A h \in AuthHeaders, dbOk \in BOOLEAN :
          LET b == autoDeactivateBegin(cronSecret, h, customers, now, dbOk)
          IN /\ cronSecret = "" =>
                   (b.response.status = 500 /\ ~b.read /\ ~b.update)
             /\ (cronSecret # "" /\ h # "Bearer " \o cronSecret) =>
                   /\ b.response = JobResponse(401, FALSE, "Unauthorized", -1)
                   /\ b.response.error # h
                   /\ ~b.read /\ ~b.update
    /\ (out.kind = "job" /\ out.who = "cron" /\ ~out.read) =>
          /\ out.done /\ customers = out.before
          /\ out.response.status \in {401, 500}
          /\ out.response.status = 500 <=> cronSecret = ""
    /\ job["cron"].running => cronSecret # ""

\* A call with a wrong or missing header has been answered 401 at once.
C14_Witness ==
    /\ out.kind = "job" /\ out.who = "cron" /\ ~out.read
    /\ out.response.status = 401
    /\ customersToDeactivate(customers, now) # {}

\* C15: after a bulk Deactivate that succeeded, every selected customer is
\* inactive and holds no netflix account and no profile number, as after a
\* deactivation run.
C15_BulkDeactivateReleasesSlot ==
    (out.kind = "deactivate" /\ out.toast = "success") =>
        \A id \in out.selected : Released(id)

\* C16: no two active customers hold the same netflix account and profile
\* number, both set.
C16_OneHolderPerSlot ==
    \A i \in CustomerIds, j \in CustomerIds :
        (/\ i # j
         /\ customers[i].is_active /\ customers[j].is_active
         /\ customers[i].netflix_account_id # NULL
         /\ customers[i].profile_number # NoProfile)
        => <<customers[i].netflix_account_id, customers[i].profile_number>>
           # <<customers[j].netflix_account_id, customers[j].profile_number>>

\* C17: a pass of the bulk extend adds its days to the subscription_days the
\* store held for the customer and changes nothing else in the table, and
\* every customer's subscription_days is its first value plus the days of all
\* the extends applied to it, from whichever session.
C17_ExtendsCompound ==
    /\ (out.kind = "extend-item" /\ out.ok) =>
          customers = [out.before EXCEPT ![out.id].subscription_days = @ + out.days]
    /\ (out.kind = "extend-item" /\ ~out.ok) => customers = out.before
    /\ \A id \in CustomerIds :
          customers[id].subscription_days = ledger.expected[id]

\* C18: a bulk extend during which the store failed for some customers
\* reports as succeeded the customers whose update was applied and as failed
\* those whose update was not.
C18_ExtendReportsOutcomes ==
    (out.kind = "extend-end" /\ out.failed > 0) =>
        /\ out.report.succeeded = out.ok
        /\ out.report.failed = out.failed

\* Number(str) of a client reading a header of decimal digits
RECURSIVE DecimalValue(_)
DecimalValue(str) ==
    IF str = <<>> THEN 0
    ELSE 10 * DecimalValue(SubSeq(str, 1, Len(str) - 1))
         + (CHOOSE d \in 0..9 : DecimalDigits[d + 1] = str[Len(str)])

\* The instants, in ticks, from s seconds after instant t on.
RetryInstants(t, s) == {t + Ceil(s * 1000, MsPerTick) + d : d \in 0..Slack}

\* C26: a 429 of validate-access-code carries retry_after =
\* ceil((resetAt - now) / 1000) seconds, its Retry-After header says the same
\* number, and the next request of the key, sent retry_after seconds later or
\* more, is allowed.
C26_RetryAfterSuffices ==
    (out.kind = "validate" /\ out.checked /\ out.response.status = 429) =>
        /\ out.response.retry_after =
              Ceil((rateLimits[out.key].resetAt - now) * MsPerTick, 1000)
        /\ DecimalValue(out.retryAfter) = out.response.retry_after
        /\ \A t \in RetryInstants(now, out.response.retry_after) :
              handlerBegin(rateLimits, lastCleanup, t, out.key, out.body).allowed

\* C28: a check that denies leaves the key's attempts and resetAt as they
\* were, a check leaves the entries of the other keys as they were, and whether
\* a key is allowed depends on its own calls only: the calls it sent since its
\* window opened, the denied ones not moving the end of the window.
C28_DeniedCheckChangesNothing ==
    (out.kind = "validate" /\ out.checked) =>
        /\ ~out.allowed =>
              /\ rateLimits[out.key] = out.before[out.key]
              /\ rateLimits[out.key] = out.swept[out.key]
        /\ \A j \in Keys \ {out.key} : rateLimits[j] = out.swept[j]
        /\ out.allowed <=> out.nth <= MAX_ATTEMPTS
        /\ (out.prev.present /\ now > out.prev.resetAt) => out.allowed

\* The second denied call of a key while the other key has calls counted.
C28_Witness ==
    /\ out.kind = "validate" /\ out.checked /\ ~out.allowed
    /\ out.nth = MAX_ATTEMPTS + 2
    /\ \E j \in Keys \ {out.key} : rateLimits[j].present /\ rateLimits[j].attempts >= 2

\* C29: the sweep removes only entries whose resetAt is before now, and every
\* check answers (allowed, remaining, resetIn) as it does in an isolate that
\* received the same calls and never swept.
C29_SweepIsTransparent ==
    (out.kind = "validate" /\ out.checked) =>
        /\ \A j \in Keys :
              (out.before[j].present /\ ~out.swept[j].present)
                  => out.before[j].resetAt < now
        /\ <<out.allowed, out.remaining, out.resetIn>>
              = <<out.unswept.allowed, out.unswept.remaining, out.unswept.resetIn>>

\* A key calls after a sweep removed its entry, which the isolate that never
\* sweeps still holds.
C29_Witness ==
    /\ out.kind = "validate" /\ out.checked
    /\ ~out.before[out.key].present
    /\ out.stale.present

\* The active customers that hold a code in the table.
ActiveHolders(code) ==
    {id \in CustomerIds : customers[id].access_code = code /\ customers[id].is_active}

\* C25: the answer to a validation request is decided by one query: a 200
\* carries the row of a customer who is active in the table the query ran on,
\* with that table's fields, a 403 means that table has no active customer
\* with the code, whatever deactivation run is under way.
C25_OneAtomicLookup ==
    (out.kind = "validate" /\ out.phase = "rpc") =>
        /\ out.response.status \in {200, 403, 500}
        /\ out.response.status = 200 =>
              \E id \in ActiveHolders(out.body.access_code.s) :
                  out.response.customer = <<Row(customers, id)>>
        /\ out.response.status = 403 => ActiveHolders(out.body.access_code.s) = {}

\* A request is granted while a deactivation run is between its scan and its
\* update and the other customer is inactive.
C25_Witness ==
    /\ out.kind = "validate" /\ out.phase = "rpc" /\ out.response.status = 200
    /\ \E w \in Triggers : job[w].running
    /\ \E id \in CustomerIds : ~customers[id].is_active

\* C27: the customers a run's update deactivates are active and expired in
\* the table the update is applied to, whatever an admin wrote between the
\* run's scan and its update.
C27_RunSparesConcurrentEdits ==
    (out.kind = "job" /\ out.done /\ out.ok /\ out.response.success) =>
        out.ids \subseteq
            (IF out.who = "cron" THEN customersToDeactivate(out.before, now)
             ELSE expiredCustomers(out.before, now))

\* C24: every customer's access_code is six ASCII digits and no two customers
\* have the same one, after creating with a generated or a custom code and
\* after regenerateCode; a code that collides is refused and the table stays
\* as it was.
C24_CodesSixDigitsAndUnique ==
    /\ \A id \in Exists(customers) : SixDigits(customers[id].access_code)
    /\ \A i \in Exists(customers), j \in Exists(customers) :
          i # j => customers[i].access_code # customers[j].access_code
    /\ (out.kind = "regenerate" /\ out.toast = "error") => customers = out.before

\* C21: the admin_users table never becomes empty, whatever delete requests
\* arrive and however their steps interleave.
C21_OneAdminRemains == Cardinality(admin_users) >= 1

\* C30: when delete-admin-user answers 200 success for an id, neither the
\* admin_users row nor the login of that id exists; a request refused for its
\* setup key, its id, the last-admin floor or the rate limit deletes nothing.
C30_DeleteIsComplete ==
    (out.kind = "delete" /\ out.done) =>
        /\ out.response.status = 200 =>
              /\ out.adminId \notin admin_users
              /\ out.adminId \notin auth_users
        /\ out.response.status \in {400, 403, 429} => Stores = out.before

\* C22: when a create-admin-user request has ended, the user it made at the
\* identity provider exists exactly if the admin_users row of that user does.
C22_NoLoginWithoutRecord ==
    (out.kind = "create" /\ out.done /\ out.created # "") =>
        (out.created \in auth_users <=> out.created \in admin_users)

\* The otp_logs rows of account acc.
ArtifactsOf(acc) == {row \in otp_logs : row.netflix_account_id = acc}

\* No fetch is between its first and its last step.
NoFetchInFlight == \A r \in Callers : calls[r] = NoCall

\* C23: when every fetch has ended, otp_logs holds at most one row for an
\* account, and that row is the one of the latest fetch that ended with
\* success, however the deletes and inserts of the fetches were interleaved.
C23_OneArtifactOfTheLatestFetch ==
    (fn = FnOtp /\ NoFetchInFlight) =>
        \A acc \in AccountIds :
            /\ Cardinality(ArtifactsOf(acc)) <= 1
            /\ \A row \in ArtifactsOf(acc) :
                  /\ row.fetch = fetched[acc].n
                  /\ row.otp_code = fetched[acc].code

====
